---- MODULE Spec2Model ----
(***************************************************************************)
(* The rate-limited HTTP dispatch engine of naff/api/http/http_client.py:   *)
(* GlobalLock, BucketLock and HTTPClient.request with its bucket registry   *)
(* (get_ratelimit / ingest_ratelimit), run by several concurrent request    *)
(* tasks on one asyncio event loop.                                         *)
(*                                                                         *)
(* Time is discrete.  Every sleep and every call_later handle is a          *)
(* countdown that Tick decrements; a sleeper or a timer may run late but    *)
(* never early.  A step of the model is the stretch of a coroutine between  *)
(* two suspension points, which asyncio runs atomically.                    *)
(***************************************************************************)
EXTENDS Integers, Sequences, FiniteSets, TLC

\* ------------------------------------------------------------ bounds
NReq == 2
MaxLocks == 3
MaxDelay == 1
TokenCap == 1
MaxCalls == 3
MaxRetryCalls == 2
MaxRetried == 1
NShards == 2
MaxSeq == 2
MaxSessions == 2
MaxReconnects == 1
MaxPresence == 1
MaxCloseCalls == 1
MaxFairCalls == 2
FairStatuses == {200, 429, 500}

\* --------------------------------------------------- program constants
max_attempts == 3
CooldownInterval == 1

None == "None"
MISSING == "MISSING"
Reqs == 1..NReq
LockIds == 1..MaxLocks
RouteKeys == {"k1", "k2"}
Hashes == {"h1", "h2"}
Bodies == {"b1"}
Statuses == {200, 400, 403, 404, 429, 500, 503, 504}
SharedMessage == "The resource is being rate limited."
\* e.errno in (54, 10054): ECONNRESET of BSD/macOS and WSAECONNRESET of Windows.
ECONNRESET == {54, 10054}
\* The errno of a connection reset (54, 10054, and 104 on Linux) or a broken pipe (32).
Errnos == {54, 10054, 104, 32}

VARIABLES
  pc,              \* per request task: where its coroutine is suspended
  attempt,         \* per request: the loop variable of request's for loop
  route,           \* per request: route.rl_bucket of the call
  lock,            \* per request: the BucketLock its local `lock` refers to (0: none)
  sleep,           \* per request: what is left of the asyncio.sleep it is in
  bl,              \* the BucketLock objects
  scheduled,       \* per BucketLock: the pending loop.call_later(delta, unlock) handles
  endpoints,       \* HTTPClient._endpoints: route key -> bucket hash
  ratelimit_locks, \* HTTPClient.ratelimit_locks: bucket hash -> BucketLock (weak)
  glocked,         \* GlobalLock._lock is held
  gwaiters,        \* GlobalLock._lock's waiters, in arrival order
  tokens,          \* GlobalLock.cooldown_system: tokens left in this window
  cdLeft,          \* GlobalLock.cooldown_system: time left in this window
  outcome,         \* per request: how its call ended
  sends,           \* per request: transfers issued by this call
  retryKind,       \* per request: what the retries of this call so far were made for
  backoffs,        \* per request: the sleeps of its retries, while all were for a 5xx
  lastStatus,      \* per request: status of the response to the last attempt the call can make (0: none)
  knownAtIssue,    \* per request: the hash recorded for its route key when it was issued
  freshAtIssue,    \* per request: no response of its route key was ingested before it was issued
  ingested,        \* route keys of which a response has been ingested
  owes,            \* per request: the hard-lock windows pending when it was issued
  hardLeft,        \* per request: what is left of retry_after since its global 429
  policy,          \* what the server of this run varies: "bucket", "retry" or "global"
  calls,           \* request calls made so far
  retried,         \* calls that have gone into a second attempt so far
  holdLeft,        \* per BucketLock: what is left of reset-after since a 2xx with remaining = 0
  handled,         \* the response handled by the last step and the request that got it, if any
  closed,          \* HTTPClient.__session.closed
  caller,          \* per request: the request whose login awaits this call (0: a task's call)
  total_shards,    \* client.total_shards
  start_pc,        \* per shard: where the caller of ConnectionState.start is
  start_error,     \* per shard: the exception start raised to its caller
  gateway_url,     \* per shard: ConnectionState.gateway_url
  shard_task,      \* per shard: ConnectionState._shard_task, its state and its exception
  gateway,         \* per shard: ConnectionState.gateway
  gateway_started, \* ConnectionState.gateway_started, the one Event made in the class body
  shard_ready,     \* per shard: ConnectionState._shard_ready
  dispatched,      \* the lifecycle events given to client.dispatch, in order
  session,         \* per shard: the Gateway Session of its GatewayClient
  run_exit,        \* per shard: how gateway.run() ended, and the close code if it was closed
  stop_pc,         \* per shard: where the caller of ConnectionState.stop is
  stop_error,      \* per shard: the exception stop raised to its caller
  client_status,   \* client._status
  client_activity, \* client._activity
  presence         \* the last call of change_presence: its shard, what it logged, raised and sent

vars == <<pc, attempt, route, lock, sleep, bl, scheduled, endpoints, ratelimit_locks,
          glocked, gwaiters, tokens, cdLeft, outcome, sends, backoffs, retryKind,
          lastStatus, knownAtIssue, freshAtIssue, ingested, owes, hardLeft, policy, calls, retried,
          holdLeft, handled, closed, caller, total_shards, start_pc, start_error, gateway_url,
          shard_task,
          gateway, gateway_started, shard_ready, dispatched, session, run_exit, stop_pc,
          stop_error, client_status, client_activity, presence>>

\* The variables of the HTTP client and those of the connection states.
hvars == <<pc, attempt, route, lock, sleep, bl, scheduled, endpoints, ratelimit_locks,
           glocked, gwaiters, tokens, cdLeft, outcome, sends, backoffs, retryKind,
           lastStatus, knownAtIssue, freshAtIssue, ingested, owes, hardLeft, policy, calls,
           retried, holdLeft, handled, closed, caller>>

stopvars == <<stop_pc, stop_error>>

presvars == <<client_status, client_activity, presence>>

gvars == <<total_shards, start_pc, start_error, gateway_url, shard_task, gateway,
           gateway_started, shard_ready, dispatched, session, run_exit, stopvars, presvars>>

\* No response was handled by the last step.
NoResponse ==
  [req |-> 0,
   resp |-> [status |-> 0, header |-> [k \in {"content-type"} |-> "application/json"],
            global |-> FALSE, message |-> "other", retry_after |-> 0, body |-> None]]

\* The state as one record, so that the methods below are functions on states.
S == [pc |-> pc, attempt |-> attempt, route |-> route, lock |-> lock, sleep |-> sleep,
      bl |-> bl, scheduled |-> scheduled, endpoints |-> endpoints,
      ratelimit_locks |-> ratelimit_locks, glocked |-> glocked, gwaiters |-> gwaiters,
      tokens |-> tokens, cdLeft |-> cdLeft, outcome |-> outcome, sends |-> sends,
      backoffs |-> backoffs, retryKind |-> retryKind, lastStatus |-> lastStatus,
      knownAtIssue |-> knownAtIssue, freshAtIssue |-> freshAtIssue,
      ingested |-> ingested, owes |-> owes, hardLeft |-> hardLeft,
      policy |-> policy, calls |-> calls, retried |-> retried, holdLeft |-> holdLeft,
      handled |-> NoResponse, closed |-> closed, caller |-> caller, beyond |-> FALSE]

Apply(t) ==
  /\ t.policy = "retry" => t.retried <= MaxRetried
  /\ ~t.beyond
  /\ pc' = t.pc /\ attempt' = t.attempt /\ route' = t.route /\ lock' = t.lock
  /\ sleep' = t.sleep /\ bl' = t.bl /\ scheduled' = t.scheduled
  /\ endpoints' = t.endpoints /\ ratelimit_locks' = t.ratelimit_locks
  /\ glocked' = t.glocked /\ gwaiters' = t.gwaiters /\ tokens' = t.tokens
  /\ cdLeft' = t.cdLeft /\ outcome' = t.outcome /\ sends' = t.sends
  /\ backoffs' = t.backoffs /\ retryKind' = t.retryKind /\ lastStatus' = t.lastStatus
  /\ knownAtIssue' = t.knownAtIssue /\ freshAtIssue' = t.freshAtIssue
  /\ ingested' = t.ingested /\ owes' = t.owes /\ hardLeft' = t.hardLeft
  /\ holdLeft' = t.holdLeft /\ policy' = t.policy /\ calls' = t.calls
  /\ retried' = t.retried /\ handled' = t.handled
  /\ closed' = t.closed /\ caller' = t.caller
  /\ UNCHANGED gvars

\* ------------------------------------------------------------ BucketLock

\* BucketLock.__init__
BucketLock == [locked |-> FALSE, waiters |-> <<>>, unlock_on_exit |-> TRUE,
               bucket_hash |-> None, limit |-> -1, remaining |-> -1, delta |-> 0]

NoOutcome == [kind |-> "none", body |-> None, lock |-> "none"]

\* The request tasks whose coroutine is inside request's for loop.
Active(s, r) == s.pc[r] \notin {"idle", "done"}

\* A BucketLock is alive while a running request's local or a call_later handle refers to it.
Referenced(s, l) ==
  \/ \E r \in Reqs : Active(s, r) /\ s.lock[r] = l
  \/ s.scheduled[l] # <<>>

\* WeakValueDictionary: an entry goes when its BucketLock is no longer referenced.
Sweep(s) ==
  LET dead == {l \in LockIds : ~Referenced(s, l)}
  IN  [s EXCEPT !.bl = [l \in LockIds |-> IF l \in dead THEN BucketLock ELSE s.bl[l]],
                !.holdLeft = [l \in LockIds |-> IF l \in dead THEN 0 ELSE s.holdLeft[l]],
                !.ratelimit_locks = [h \in Hashes |->
                    IF s.ratelimit_locks[h] \in dead THEN 0 ELSE s.ratelimit_locks[h]]]

\* header.get(key, default)
HeaderGet(header, key, default) ==
  IF key \in DOMAIN header THEN header[key] ELSE default

\* Header values are strings of decimal digits; int() and float() read them.
Digits == <<"0", "1", "2", "3", "4", "5", "6", "7", "8", "9">>

str(n) == Digits[n + 1]

int(x) == (CHOOSE i \in DOMAIN Digits : Digits[i] = x) - 1

\* An ingest_ratelimit_header that counts remaining down itself when the header is absent.
ingest_ratelimit_header_countdown(b, header) ==
  [b EXCEPT !.bucket_hash = HeaderGet(header, "x-ratelimit-bucket", None),
            !.limit = IF HeaderGet(header, "x-ratelimit-limit", None) \notin {None, ""}
                      THEN int(header["x-ratelimit-limit"]) ELSE -1,
            !.remaining = IF HeaderGet(header, "x-ratelimit-remaining", None) \notin {None, ""}
                          THEN int(header["x-ratelimit-remaining"])
                          ELSE b.remaining - 1,
            !.delta = int(HeaderGet(header, "x-ratelimit-reset-after", "0"))]

\* BucketLock.ingest_ratelimit_header: `int(header.get(key) or -1)` takes -1 for an absent
\* or empty value, `float(header.get(key, 0.0))` takes 0 for an absent one.
ingest_ratelimit_header(b, header) ==
  [b EXCEPT !.bucket_hash = HeaderGet(header, "x-ratelimit-bucket", None),
            !.limit = IF HeaderGet(header, "x-ratelimit-limit", None) \notin {None, ""}
                      THEN int(header["x-ratelimit-limit"]) ELSE -1,
            !.remaining = IF HeaderGet(header, "x-ratelimit-remaining", None) \notin {None, ""}
                          THEN int(header["x-ratelimit-remaining"]) ELSE -1,
            !.delta = int(HeaderGet(header, "x-ratelimit-reset-after", "0"))]

\* BucketLock.unlock: asyncio.Lock.release; releasing a lock that is not held raises
\* RuntimeError and leaves it as it is.
unlock(s, l) == [s EXCEPT !.bl[l].locked = FALSE]

\* A sorted insert into the loop's pending handles of one lock.
RECURSIVE Insert(_, _)
Insert(q, d) ==
  IF q = <<>> THEN <<d>>
  ELSE IF d <= Head(q) THEN <<d>> \o q
  ELSE <<Head(q)>> \o Insert(Tail(q), d)

\* A blind_defer_unlock that schedules the release but leaves unlock_on_exit set.
blind_defer_unlock_keepflag(s, l) ==
  [s EXCEPT !.scheduled[l] = Insert(s.scheduled[l], s.bl[l].delta)]

\* BucketLock.blind_defer_unlock
blind_defer_unlock(s, l) ==
  [s EXCEPT !.bl[l].unlock_on_exit = FALSE,
            !.scheduled[l] = Insert(s.scheduled[l], s.bl[l].delta)]

\* An __aexit__ that resets the flag and never releases.
aexit_keep(s, l) == [s EXCEPT !.bl[l].unlock_on_exit = TRUE]

\* An __aexit__ that releases a held lock whatever unlock_on_exit says.
aexit_ignore_flag(s, l) ==
  LET s1 == IF s.bl[l].locked THEN unlock(s, l) ELSE s
  IN  [s1 EXCEPT !.bl[l].unlock_on_exit = TRUE]

\* An __aexit__ that never sets unlock_on_exit again.
aexit_sticky(s, l) ==
  IF s.bl[l].unlock_on_exit /\ s.bl[l].locked THEN unlock(s, l) ELSE s

\* BucketLock.__aexit__
aexit(s, l) ==
  LET s1 == IF s.bl[l].unlock_on_exit /\ s.bl[l].locked THEN unlock(s, l) ELSE s
  IN  [s1 EXCEPT !.bl[l].unlock_on_exit = TRUE]

\* A defer_unlock that always sleeps for the bucket's own reset-delay.
defer_unlock_delta(s, r, reset_after) ==
  [s EXCEPT !.bl[s.lock[r]].unlock_on_exit = FALSE, !.pc[r] = "defersleep",
            !.sleep[r] = s.bl[s.lock[r]].delta]

\* BucketLock.defer_unlock, up to its sleep: reset_after is <<>> for None, <<d>> for d.
defer_unlock(s, r, reset_after) ==
  LET l == s.lock[r]
      d == IF reset_after # <<>> /\ reset_after[1] # 0 THEN reset_after[1] ELSE s.bl[l].delta
  IN  [s EXCEPT !.bl[l].unlock_on_exit = FALSE, !.pc[r] = "defersleep", !.sleep[r] = d]

\* ------------------------------------------------------------ GlobalLock

\* CooldownSystem.determine_cooldown: a window that has run out is reopened with all tokens.
determine_cooldown(s) ==
  IF s.cdLeft = 0 THEN [s EXCEPT !.tokens = TokenCap, !.cdLeft = CooldownInterval] ELSE s

\* The transfer is issued: session.request(route.method, route.url, **kwargs).
Send(s, r) == [s EXCEPT !.pc[r] = "send", !.sends[r] = @ + 1]

\* Route("GET", "/users/@me").rl_bucket, the route of login.
UsersMe == "k1"

\* request after rate_limit: `if self.__session.closed: await self.login(self.token)`, then
\* the transfer.  The login needs a second request and, unless the lock of its route is
\* registered, a second BucketLock.
transfer(s, r) ==
  IF s.closed
  THEN [s EXCEPT !.pc[r] = "relogin",
                 !.beyond = \/ \A q \in Reqs : s.pc[q] # "idle"
                            \/ /\ ~(s.endpoints[UsersMe] # None
                                     /\ s.ratelimit_locks[s.endpoints[UsersMe]] # 0)
                               /\ \A l \in LockIds : Referenced(s, l)]
  ELSE Send(s, r)

\* A rate_limit that lets the request through without taking a token.
acquire_token_loop_free(s, r) ==
  Send([determine_cooldown(s) EXCEPT !.glocked = FALSE], r)

\* GlobalLock.rate_limit once its lock is held: take a token or sleep until the window ends;
\* with a token the lock is released and request goes on to the transfer.
acquire_token_loop(s, r) ==
  LET s1 == determine_cooldown(s)
  IN  IF s1.tokens = 0
      THEN [s1 EXCEPT !.pc[r] = "tokenwait", !.sleep[r] = s1.cdLeft]
      ELSE transfer([s1 EXCEPT !.tokens = @ - 1, !.glocked = FALSE], r)

\* A rate_limit that takes tokens without holding the lock.
rate_limit_unlocked(s, r) == acquire_token_loop(s, r)

\* GlobalLock.rate_limit: asyncio.Lock.acquire takes a free lock without suspending when
\* nobody waits for it, and queues otherwise.
rate_limit(s, r) ==
  IF ~s.glocked /\ s.gwaiters = <<>>
  THEN acquire_token_loop([s EXCEPT !.glocked = TRUE], r)
  ELSE [s EXCEPT !.gwaiters = Append(@, r), !.pc[r] = "throttle"]

\* A GlobalLock.lock that sleeps without taking the lock.
global_lock_unheld(s, r, delta) ==
  [s EXCEPT !.pc[r] = "hardsleep", !.sleep[r] = delta]

\* A GlobalLock.lock that takes the lock and releases it without sleeping.
global_lock_nosleep(s, r, delta) ==
  IF ~s.glocked /\ s.gwaiters = <<>>
  THEN [s EXCEPT !.glocked = TRUE, !.pc[r] = "hardsleep", !.sleep[r] = 0]
  ELSE [s EXCEPT !.gwaiters = Append(@, r), !.pc[r] = "hardwait", !.sleep[r] = 0]

\* GlobalLock.lock(delta), up to its sleep.
global_lock(s, r, delta) ==
  IF ~s.glocked /\ s.gwaiters = <<>>
  THEN [s EXCEPT !.glocked = TRUE, !.pc[r] = "hardsleep", !.sleep[r] = delta]
  ELSE [s EXCEPT !.gwaiters = Append(@, r), !.pc[r] = "hardwait", !.sleep[r] = delta]

\* ------------------------------------------------------------ HTTPClient

\* A BucketLock() nobody refers to yet: the least free identity.
NewLock(s) ==
  CHOOSE l \in LockIds : ~Referenced(s, l) /\ \A m \in LockIds : ~Referenced(s, m) => l <= m

\* A get_ratelimit that hands out the lock of a running call for the same route key.
get_ratelimit_by_route(s, k) ==
  IF \E q \in Reqs : Active(s, q) /\ s.route[q] = k /\ s.lock[q] # 0
  THEN s.lock[CHOOSE q \in Reqs : Active(s, q) /\ s.route[q] = k /\ s.lock[q] # 0]
  ELSE IF s.endpoints[k] # None /\ s.ratelimit_locks[s.endpoints[k]] # 0
  THEN s.ratelimit_locks[s.endpoints[k]]
  ELSE NewLock(s)

\* A get_ratelimit that never looks into the registry.
get_ratelimit_always_new(s, k) == NewLock(s)

\* HTTPClient.get_ratelimit
get_ratelimit(s, k) ==
  IF s.endpoints[k] # None /\ s.ratelimit_locks[s.endpoints[k]] # 0
  THEN s.ratelimit_locks[s.endpoints[k]]
  ELSE NewLock(s)

\* An ingest_ratelimit that records the hash of the route key but not the lock of the hash.
ingest_ratelimit_route_only(s, k, header, l) ==
  LET b  == ingest_ratelimit_header(s.bl[l], header)
      s1 == [s EXCEPT !.bl[l] = b, !.ingested = @ \cup {k}]
  IN  IF b.bucket_hash # None
      THEN [s1 EXCEPT !.endpoints[k] = b.bucket_hash]
      ELSE s1

\* HTTPClient.ingest_ratelimit
ingest_ratelimit(s, k, header, l) ==
  LET b  == ingest_ratelimit_header(s.bl[l], header)
      s1 == [s EXCEPT !.bl[l] = b, !.ingested = @ \cup {k}]
  IN  IF b.bucket_hash # None
      THEN [s1 EXCEPT !.endpoints[k] = b.bucket_hash, !.ratelimit_locks[b.bucket_hash] = l]
      ELSE s1

\* A _raise_exception without the 404 branch.
raise_exception_no404(status) ==
  IF status = 403 THEN "Forbidden"
  ELSE IF status >= 500 THEN "DiscordError"
  ELSE "HTTPException"

\* HTTPClient._raise_exception: the error class by status.
raise_exception(status) ==
  IF status = 403 THEN "Forbidden"
  ELSE IF status = 404 THEN "NotFound"
  ELSE IF status >= 500 THEN "DiscordError"
  ELSE "HTTPException"

\* What became of the bucket lock when the call ended.
LockState(s, l) ==
  IF ~s.bl[l].locked THEN "released"
  ELSE IF s.scheduled[l] # <<>> THEN "deferred"
  ELSE "held"

\* request ends (return or raise): the task is over and its local `lock` is gone.
finish(s, r, kind, body) ==
  Sweep([s EXCEPT !.pc[r] = "done",
                  !.outcome[r] = [kind |-> kind, body |-> body,
                                  lock |-> LockState(s, s.lock[r])],
                  !.sleep[r] = 0, !.attempt[r] = 0,
                  !.knownAtIssue[r] = None, !.freshAtIssue[r] = FALSE,
                  !.owes[r] = {}, !.hardLeft[r] = 0])

\* `async with lock:` BucketLock.__aenter__, then the attempt up to its first suspension.
aenter(s, r) ==
  LET l == s.lock[r]
  IN  IF ~s.bl[l].locked /\ s.bl[l].waiters = <<>>
      THEN rate_limit([s EXCEPT !.bl[l].locked = TRUE], r)
      ELSE [s EXCEPT !.bl[l].waiters = Append(@, r), !.pc[r] = "acquire"]

\* A for loop that makes one attempt more.
next_attempt_extra(s, r) ==
  LET s1 == aexit(s, s.lock[r])
  IN  IF s.attempt[r] + 1 <= max_attempts
      THEN aenter([s1 EXCEPT !.attempt[r] = @ + 1, !.sleep[r] = 0, !.lastStatus[r] = 0], r)
      ELSE finish(s1, r, "return", None)

\* `continue`: leave the `async with lock:` scope and go round the for loop; when the loop
\* runs out the function ends without a return statement, that is, it returns None.
next_attempt(s, r) ==
  LET s1 == aexit(s, s.lock[r])
  IN  IF s.attempt[r] + 1 < max_attempts
      THEN aenter([s1 EXCEPT !.attempt[r] = @ + 1, !.sleep[r] = 0, !.lastStatus[r] = 0], r)
      ELSE finish(s1, r, "return", None)

\* The attempt is given up for a retry of this kind ("5xx", "global" or "mixed").
retry(s, r, kind) ==
  LET k == IF s.retryKind[r] \in {"none", kind} THEN kind ELSE "mixed"
  IN  [s EXCEPT !.retryKind[r] = k,
                !.retried = IF s.attempt[r] = 0 THEN @ + 1 ELSE @,
                !.backoffs[r] = IF k = "5xx" THEN @ ELSE <<>>,
                !.lastStatus[r] = IF s.attempt[r] + 1 < max_attempts THEN 0 ELSE @]

\* A backoff that grows by one second per attempt.
backoff_linear(s, r) ==
  [s EXCEPT !.pc[r] = "backoff", !.sleep[r] = 1 + s.attempt[r],
            !.backoffs[r] = IF s.retryKind[r] = "5xx" THEN Append(@, 1 + s.attempt[r])
                            ELSE @]

\* The sleep of a retry after a server error or a connection reset.
backoff(s, r) ==
  [s EXCEPT !.pc[r] = "backoff", !.sleep[r] = 1 + s.attempt[r] * 2,
            !.backoffs[r] = IF s.retryKind[r] = "5xx" THEN Append(@, 1 + s.attempt[r] * 2)
                            ELSE @]

\* `if not 300 > response.status >= 200: raise ...` and `return result`, leaving the scope.
conclude(s, r, resp) ==
  IF ~(300 > resp.status /\ resp.status >= 200)
  THEN finish(aexit(s, s.lock[r]), r, raise_exception(resp.status), resp.body)
  ELSE finish(aexit(s, s.lock[r]), r, "return", resp.body)

\* A request that ingests the rate-limit headers of 2xx responses only.
interpret_ingest_on_success(s, r, resp) ==
  LET l  == s.lock[r]
      s0 == IF 300 > resp.status /\ resp.status >= 200
            THEN ingest_ratelimit(s, s.route[r], resp.header, l) ELSE s
      s1 == [s0 EXCEPT !.lastStatus[r] = resp.status]
  IN  IF resp.status = 429
      THEN IF resp.global
           THEN global_lock(retry([s1 EXCEPT !.hardLeft[r] = resp.retry_after], r, "global"),
                            r, resp.retry_after)
           ELSE IF resp.message = SharedMessage
           THEN defer_unlock(retry(s1, r, "mixed"), r, <<resp.retry_after>>)
           ELSE defer_unlock(retry(s1, r, "mixed"), r, <<>>)
      ELSE IF s1.bl[l].remaining = 0
      THEN conclude([blind_defer_unlock(s1, l) EXCEPT
                        !.holdLeft[l] = IF 300 > resp.status /\ resp.status >= 200
                                        THEN s1.bl[l].delta ELSE @],
                    r, resp)
      ELSE IF resp.status \in {500, 502, 504}
      THEN backoff(retry(s1, r, "5xx"), r)
      ELSE conclude(s1, r, resp)

\* request, from the response to the next suspension point or the end of the call.
interpret(s, r, resp) ==
  LET l  == s.lock[r]
      s0 == ingest_ratelimit(s, s.route[r], resp.header, l)
      s1 == [s0 EXCEPT !.lastStatus[r] = resp.status]
  IN  IF resp.status = 429
      THEN IF resp.global
           THEN global_lock(retry([s1 EXCEPT !.hardLeft[r] = resp.retry_after], r, "global"),
                            r, resp.retry_after)
           ELSE IF resp.message = SharedMessage
           THEN defer_unlock(retry(s1, r, "mixed"), r, <<resp.retry_after>>)
           ELSE defer_unlock(retry(s1, r, "mixed"), r, <<>>)
      ELSE IF s1.bl[l].remaining = 0
      THEN conclude([blind_defer_unlock(s1, l) EXCEPT
                        !.holdLeft[l] = IF 300 > resp.status /\ resp.status >= 200
                                        THEN s1.bl[l].delta ELSE @],
                    r, resp)
      ELSE IF resp.status \in {500, 502, 504}
      THEN backoff(retry(s1, r, "5xx"), r)
      ELSE conclude(s1, r, resp)

\* `except OSError as e:` around the transfer.
on_oserror(s, r, errno) ==
  IF s.attempt[r] < max_attempts - 1 /\ errno \in ECONNRESET
  THEN backoff(retry(s, r, "mixed"), r)
  ELSE finish(aexit(s, s.lock[r]), r, "OSError", None)

\* ------------------------------------------------------------ the server

RLKeys == {"x-ratelimit-bucket", "x-ratelimit-limit", "x-ratelimit-remaining",
           "x-ratelimit-reset-after"}

\* Response headers: all four rate-limit headers or none of them.
MkHeader(keys, b, m, d) ==
  [k \in keys \cup {"content-type"} |->
     IF k = "x-ratelimit-bucket" THEN b
     ELSE IF k = "x-ratelimit-limit" THEN "2"
     ELSE IF k = "x-ratelimit-remaining" THEN str(m)
     ELSE IF k = "x-ratelimit-reset-after" THEN str(d)
     ELSE "application/json"]

\* A server of the "bucket" policy answers 200 or 404 and varies the rate-limit headers; a
\* server of the "retry" policy varies the status and the 429 body and knows one bucket; a
\* server of the "global" policy answers 200 or a global 429 and sends no rate-limit headers.
Headers(p) ==
  IF p = "bucket"
  THEN {MkHeader(RLKeys, b, m, d) : b \in Hashes, m \in {0, 1}, d \in 0..MaxDelay}
         \cup {MkHeader({}, None, 0, 0)}
  ELSE IF p = "retry"
  THEN {MkHeader(RLKeys, "h1", m, MaxDelay) : m \in {0, 1}} \cup {MkHeader({}, None, 0, 0)}
  ELSE {MkHeader({}, None, 0, 0)}

\* A 429 carries {global, message, retry_after}; any other response a body to decode.
Responses(p) ==
  IF p = "bucket"
  THEN [status : {200, 404}, header : Headers(p), global : {FALSE}, message : {"other"},
        retry_after : {0}, body : Bodies]
  ELSE IF p = "retry"
  THEN [status : {429}, header : Headers(p), global : BOOLEAN,
        message : {SharedMessage, "other"}, retry_after : 0..MaxDelay, body : {None}]
         \cup [status : Statuses \ {429}, header : Headers(p), global : {FALSE},
               message : {"other"}, retry_after : {0}, body : Bodies]
  ELSE [status : {429}, header : Headers(p), global : {TRUE}, message : {"other"},
        retry_after : {MaxDelay}, body : {None}]
         \cup [status : {200}, header : Headers(p), global : {FALSE},
               message : {"other"}, retry_after : {0}, body : Bodies]

\* ------------------------------------------------------------ actions

\* _endpoints at the start of a run: empty, or left by an earlier call for k2 that was
\* answered with bucket h1 and whose BucketLock has been collected since.
Learned(p) ==
  {[k \in RouteKeys |-> None]}
    \cup (IF p = "bucket" THEN {[k \in RouteKeys |-> IF k = "k2" THEN "h1" ELSE None]} ELSE {})

\* The HTTP client after construction.
HttpInit ==
  /\ pc = [r \in Reqs |-> "idle"]
  /\ attempt = [r \in Reqs |-> 0]
  /\ route = [r \in Reqs |-> "k1"]
  /\ lock = [r \in Reqs |-> 0]
  /\ sleep = [r \in Reqs |-> 0]
  /\ bl = [l \in LockIds |-> BucketLock]
  /\ scheduled = [l \in LockIds |-> <<>>]
  /\ ratelimit_locks = [h \in Hashes |-> 0]
  /\ glocked = FALSE
  /\ gwaiters = <<>>
  /\ tokens = TokenCap
  /\ cdLeft = CooldownInterval
  /\ outcome = [r \in Reqs |-> NoOutcome]
  /\ sends = [r \in Reqs |-> 0]
  /\ backoffs = [r \in Reqs |-> <<>>]
  /\ retryKind = [r \in Reqs |-> "none"]
  /\ lastStatus = [r \in Reqs |-> 0]
  /\ knownAtIssue = [r \in Reqs |-> None]
  /\ freshAtIssue = [r \in Reqs |-> FALSE]
  /\ owes = [r \in Reqs |-> {}]
  /\ hardLeft = [r \in Reqs |-> 0]
  /\ holdLeft = [l \in LockIds |-> 0]
  /\ policy \in {"bucket", "retry", "global"}
  /\ endpoints \in Learned(policy)
  /\ ingested = {k \in RouteKeys : endpoints[k] # None}
  /\ calls = 0
  /\ retried = 0
  /\ handled = NoResponse
  /\ closed = FALSE
  /\ caller = [r \in Reqs |-> 0]

Shards == 1..NShards

NoSession == [conn |-> "DISCONNECTED", session_id |-> 0, sequence |-> 0, cursor |-> 0,
              inflight |-> 0, delivered |-> {}, redelivered |-> FALSE,
              resume |-> <<>>, closed_at |-> <<>>, sessions |-> 0, reconnects |-> 0,
              connects |-> 0, acked |-> TRUE, beat |-> "none", closing |-> FALSE]

NoPresence == [shard |-> 0, calls |-> 0, status |-> [t |-> "None", v |-> ""],
               activity |-> [t |-> "MISSING", type |-> "", url |-> ""], gateway |-> "MISSING",
               warned |-> FALSE, error |-> "none", sent |-> <<>>]

\* Every ConnectionState after construction: no task, no gateway, nothing signalled.
StateInit ==
  /\ start_pc = [s \in Shards |-> "idle"]
  /\ start_error = [s \in Shards |-> "none"]
  /\ gateway_url = [s \in Shards |-> MISSING]
  /\ shard_task = [s \in Shards |-> [state |-> None, error |-> "none"]]
  /\ gateway = [s \in Shards |-> MISSING]
  /\ gateway_started = FALSE
  /\ shard_ready = [s \in Shards |-> FALSE]
  /\ dispatched = <<>>
  /\ session = [s \in Shards |-> NoSession]
  /\ run_exit = [s \in Shards |-> [how |-> "none", code |-> 0]]
  /\ stop_pc = [s \in Shards |-> "idle"]
  /\ stop_error = [s \in Shards |-> "none"]
  /\ client_status = [t |-> "Status", v |-> "ONLINE"]
  /\ client_activity = [t |-> "None", type |-> "", url |-> ""]
  /\ presence = NoPresence

Init == HttpInit /\ StateInit /\ total_shards = 1

\* No finished call is waiting for its caller to take the result.
NoneDone == \A q \in Reqs : pc[q] \notin {"done", "relogin"}

\* A task calls HTTPClient.request(route): get_ratelimit, then the first attempt.
Call(r, k) ==
  /\ pc[r] = "idle" /\ NoneDone
  /\ calls < (IF policy = "bucket" THEN MaxCalls ELSE MaxRetryCalls)
  /\ \/ endpoints[k] # None /\ ratelimit_locks[endpoints[k]] # 0
     \/ \E l \in LockIds : ~Referenced(S, l)
  /\ LET l  == get_ratelimit(S, k)
         s1 == [S EXCEPT !.pc[r] = "start", !.calls = @ + 1, !.route[r] = k, !.lock[r] = l, !.attempt[r] = 0,
                         !.outcome[r] = NoOutcome, !.sends[r] = 0, !.backoffs[r] = <<>>,
                         !.retryKind[r] = "none", !.lastStatus[r] = 0, !.hardLeft[r] = 0,
                         !.knownAtIssue[r] = endpoints[k],
                         !.freshAtIssue[r] = (k \notin ingested),
                         !.owes[r] = {q \in Reqs : pc[q] \in {"hardwait", "hardsleep"}}]
     IN  Apply(aenter(s1, r))

\* A task waiting for its bucket lock is woken by the release and takes the lock.
ResumeBucket(r) ==
  /\ pc[r] = "acquire" /\ NoneDone
  /\ ~bl[lock[r]].locked
  /\ bl[lock[r]].waiters # <<>> /\ Head(bl[lock[r]].waiters) = r
  /\ Apply(rate_limit([S EXCEPT !.bl[lock[r]].locked = TRUE,
                                !.bl[lock[r]].waiters = Tail(@)], r))

\* A task waiting for the global lock is woken by the release and takes the lock.
ResumeGlobal(r) ==
  /\ pc[r] \in {"throttle", "hardwait"} /\ NoneDone
  /\ ~glocked
  /\ gwaiters # <<>> /\ Head(gwaiters) = r
  /\ LET s1 == [S EXCEPT !.glocked = TRUE, !.gwaiters = Tail(@)]
     IN  IF pc[r] = "throttle"
         THEN Apply(acquire_token_loop(s1, r))
         ELSE Apply([s1 EXCEPT !.pc[r] = "hardsleep"])

\* The server answers the transfer of r.
Response(r) ==
  /\ pc[r] = "send" /\ NoneDone
  /\ \E resp \in Responses(policy) :
       /\ handled' = [req |-> r, resp |-> resp]
       /\ Apply([interpret(S, r, resp) EXCEPT !.handled = [req |-> r, resp |-> resp]])

\* The transfer of r fails with an OSError.
TransportError(r) ==
  /\ pc[r] = "send" /\ NoneDone
  /\ policy = "retry"
  /\ \E errno \in Errnos : Apply(on_oserror(S, r, errno))

\* An asyncio.sleep of r is over.
Wake(r) ==
  /\ pc[r] \in {"tokenwait", "hardsleep", "defersleep", "backoff"} /\ NoneDone
  /\ sleep[r] = 0
  /\ IF pc[r] = "tokenwait" THEN Apply(acquire_token_loop(S, r))
     ELSE IF pc[r] = "hardsleep"
     THEN Apply(next_attempt([S EXCEPT !.glocked = FALSE,
                                       !.owes = [q \in Reqs |-> S.owes[q] \ {r}]], r))
     ELSE IF pc[r] = "defersleep" THEN Apply(next_attempt(unlock(S, lock[r]), r))
     ELSE Apply(next_attempt(S, r))

\* A call_later handle of blind_defer_unlock is due: the loop calls lock.unlock().
TimerFire(l) ==
  /\ NoneDone
  /\ scheduled[l] # <<>>
  /\ Head(scheduled[l]) = 0
  /\ Apply(Sweep([unlock(S, l) EXCEPT !.scheduled[l] = Tail(@)]))

\* The caller of request takes the result (or the exception) of the finished call; the
\* task is over.  Nothing else runs between the end of the call and this step.
Return(r) ==
  /\ pc[r] = "done" /\ caller[r] = 0
  /\ Apply([S EXCEPT !.pc[r] = "idle", !.outcome[r] = NoOutcome, !.sends[r] = 0,
                      !.backoffs[r] = <<>>, !.retryKind[r] = "none", !.lastStatus[r] = 0,
                      !.lock[r] = 0, !.route[r] = "k1"])

Sleeping(r) == pc[r] \in {"tokenwait", "hardsleep", "defersleep", "backoff"}

\* The countdowns that are running and have not run out.
Pending ==
  {sleep[r] : r \in {q \in Reqs : Sleeping(q)}}
    \cup UNION {{scheduled[l][i] : i \in DOMAIN scheduled[l]} : l \in LockIds}
    \cup {cdLeft} \cup {hardLeft[r] : r \in Reqs} \cup {holdLeft[l] : l \in LockIds}

Dec(n, d) == IF n > d THEN n - d ELSE 0

\* Time passes, up to the next moment at which a running countdown runs out.  What is due
\* need not run at once: a sleeper or a handle that is due may still be overtaken.
Tick ==
  /\ NoneDone
  /\ \E x \in Pending : x > 0
  /\ LET d == CHOOSE x \in Pending : x > 0 /\ \A y \in Pending : y > 0 => x <= y
     IN  /\ sleep' = [r \in Reqs |-> IF Sleeping(r) THEN Dec(sleep[r], d) ELSE sleep[r]]
         /\ scheduled' = [l \in LockIds |->
                            [i \in DOMAIN scheduled[l] |-> Dec(scheduled[l][i], d)]]
         /\ cdLeft' = Dec(cdLeft, d)
         /\ hardLeft' = [r \in Reqs |-> Dec(hardLeft[r], d)]
         /\ holdLeft' = [l \in LockIds |-> Dec(holdLeft[l], d)]
         /\ handled' = NoResponse
  /\ UNCHANGED <<pc, attempt, route, lock, bl, endpoints, ratelimit_locks, glocked,
                 gwaiters, tokens, outcome, sends, backoffs, retryKind, lastStatus,
                 knownAtIssue, freshAtIssue, ingested, owes, policy, calls, retried,
                 closed, caller>>
  /\ UNCHANGED gvars

Next ==
  \/ \E r \in Reqs, k \in RouteKeys : Call(r, k)
  \/ \E r \in Reqs : ResumeBucket(r)
  \/ \E r \in Reqs : ResumeGlobal(r)
  \/ \E r \in Reqs : Response(r)
  \/ \E r \in Reqs : TransportError(r)
  \/ \E r \in Reqs : Wake(r)
  \/ \E r \in Reqs : Return(r)
  \/ \E l \in LockIds : TimerFire(l)
  \/ Tick

Spec == Init /\ [][Next]_vars

TypeOK ==
  /\ pc \in [Reqs -> {"idle", "acquire", "throttle", "tokenwait", "send", "hardwait",
                      "hardsleep", "defersleep", "backoff", "done", "relogin", "login"}]
  /\ attempt \in [Reqs -> 0..(max_attempts - 1)]
  /\ lock \in [Reqs -> LockIds \cup {0}]
  /\ \A r \in Reqs : pc[r] # "idle" <=> lock[r] # 0
  /\ retryKind \in [Reqs -> {"none", "5xx", "global", "mixed"}]
  /\ \A r \in Reqs : sleep[r] \in 0..(2 * max_attempts)
  /\ \A l \in LockIds : Len(scheduled[l]) <= 1
  /\ tokens \in 0..TokenCap

\* ------------------------------------------------------------ scheduling

\* The step in which request r handles the response to its transfer, told by what it
\* leaves in `handled`: these are the steps of Response(r), which is enabled whenever a
\* transfer of r is under way.
Answered(r) ==
  /\ pc[r] = "send" /\ NoneDone
  /\ \E resp \in Responses(policy) : handled' = [req |-> r, resp |-> resp]

\* The step in which request r, whose sleep is over, runs again, told by where it leaves r:
\* these are the steps of Wake(r).
Woken(r) ==
  /\ pc[r] \in {"tokenwait", "hardsleep", "defersleep", "backoff"} /\ NoneDone
  /\ sleep[r] = 0
  /\ \E p \in {"tokenwait", "send", "relogin", "acquire", "throttle", "done"},
        d \in 0..CooldownInterval :
       /\ <<p, d>> # <<pc[r], 0>>
       /\ pc' = [pc EXCEPT ![r] = p]
       /\ sleep' = [sleep EXCEPT ![r] = d]

\* The step in which request r, first in the queue of its free bucket lock, takes the
\* lock and goes on: these are the steps of ResumeBucket(r).
Entered(r) ==
  /\ pc[r] = "acquire" /\ NoneDone
  /\ ~bl[lock[r]].locked
  /\ bl[lock[r]].waiters # <<>> /\ Head(bl[lock[r]].waiters) = r
  /\ \E p \in {"throttle", "tokenwait", "send", "relogin"} : pc' = [pc EXCEPT ![r] = p]

\* The step in which request r, first in the queue of the free global lock, takes it:
\* these are the steps of ResumeGlobal(r).
Passed(r) ==
  /\ pc[r] \in {"throttle", "hardwait"} /\ NoneDone
  /\ ~glocked
  /\ gwaiters # <<>> /\ Head(gwaiters) = r
  /\ \E p \in {"tokenwait", "send", "relogin", "hardsleep"} : pc' = [pc EXCEPT ![r] = p]

\* The step in which a call_later handle of l that is due is run: the steps of TimerFire(l).
Fired(l) ==
  /\ NoneDone
  /\ scheduled[l] # <<>>
  /\ Head(scheduled[l]) = 0
  /\ scheduled' = [scheduled EXCEPT ![l] = Tail(@)]

\* The step in which the caller takes the result of the finished call r: the steps of
\* Return(r).
Returned(r) ==
  /\ pc[r] = "done" /\ caller[r] = 0
  /\ pc' = [pc EXCEPT ![r] = "idle"]

\* The event loop does not idle while a task is ready or a call_later handle is due, time
\* passes, and the server does not leave every transfer unanswered.
Fairness ==
  /\ WF_pc(\E r \in Reqs : Entered(r) \/ Passed(r) \/ Returned(r))
  /\ WF_handled(\E r \in Reqs : Answered(r))
  /\ WF_<<pc, sleep>>(\E r \in Reqs : Woken(r))
  /\ WF_scheduled(\E l \in LockIds : Fired(l))
  /\ WF_vars(Tick)

\* The runs in which termination is checked: MaxFairCalls calls, answered with a status of
\* FairStatuses, a 429 with a retry_after of MaxDelay.
FairNext ==
  \/ \E r \in Reqs, k \in RouteKeys : Call(r, k) /\ calls' <= MaxFairCalls
  \/ \E r \in Reqs : ResumeBucket(r)
  \/ \E r \in Reqs : ResumeGlobal(r)
  \/ \E r \in Reqs :
       /\ Response(r)
       /\ handled'.resp.status \in FairStatuses
       /\ handled'.resp.status = 429 => handled'.resp.retry_after = MaxDelay
  \/ \E r \in Reqs : TransportError(r)
  \/ \E r \in Reqs : Wake(r)
  \/ \E r \in Reqs : Return(r)
  \/ \E l \in LockIds : TimerFire(l)
  \/ Tick

\* The HTTP client under a fair event loop and an answering server.
FairSpec == Init /\ [][FairNext]_vars /\ Fairness

\* ------------------------------------------------------------ cancellation

\* asyncio.Lock.acquire and GlobalLock.rate_limit give up their place in the queue (and what
\* they hold) in a finally clause or an `async with`; GlobalLock.lock and
\* BucketLock.defer_unlock have neither around their sleep.  The CancelledError then leaves
\* `async with lock:` through BucketLock.__aexit__, unless the request had not entered yet.
cancelled(s, r) ==
  LET l  == s.lock[r]
      p  == s.pc[r]
      s1 == IF p = "acquire"
            THEN [s EXCEPT !.bl[l].waiters = SelectSeq(@, LAMBDA x : x # r)]
            ELSE IF p \in {"throttle", "hardwait"}
            THEN aexit([s EXCEPT !.gwaiters = SelectSeq(@, LAMBDA x : x # r)], l)
            ELSE IF p = "tokenwait"
            THEN aexit([s EXCEPT !.glocked = FALSE], l)
            ELSE aexit(s, l)
  IN  finish([s1 EXCEPT !.owes = [q \in Reqs |-> s1.owes[q] \ {r}]], r, "CancelledError", None)

\* The task of request r is cancelled at the suspension point it is waiting at.
Cancel(r) ==
  /\ pc[r] \in {"acquire", "throttle", "tokenwait", "send", "hardwait", "hardsleep",
                "defersleep", "backoff"}
  /\ NoneDone
  /\ Apply(cancelled(S, r))

CancelNext ==
  \/ \E r \in Reqs, k \in RouteKeys : Call(r, k)
  \/ \E r \in Reqs : ResumeBucket(r)
  \/ \E r \in Reqs : ResumeGlobal(r)
  \/ \E r \in Reqs : Response(r)
  \/ \E r \in Reqs : TransportError(r)
  \/ \E r \in Reqs : Wake(r)
  \/ \E r \in Reqs : Return(r)
  \/ \E l \in LockIds : TimerFire(l)
  \/ Tick
  \/ \E r \in Reqs : Cancel(r)

\* The HTTP client with request tasks that may be cancelled.
CancelSpec == Init /\ [][CancelNext]_vars

\* ------------------------------------------------------------ login

\* HTTPClient.close: the session is closed.  No transfer is under way on it.
Close ==
  /\ ~closed /\ NoneDone
  /\ calls <= MaxCloseCalls
  /\ \A r \in Reqs : pc[r] # "send"
  /\ Apply([S EXCEPT !.closed = TRUE])

\* HTTPClient.login called by request r, which found the session closed: a new session, and
\* self.request(Route("GET", "/users/@me")) up to its first suspension point.  Nothing else
\* runs between the test of session.closed and this.
Login(r) ==
  /\ pc[r] = "relogin"
  /\ LET q  == CHOOSE x \in Reqs : pc[x] = "idle" /\ \A y \in Reqs : pc[y] = "idle" => x <= y
         s0 == [S EXCEPT !.closed = FALSE, !.pc[r] = "login"]
         l  == get_ratelimit(s0, UsersMe)
         s1 == [s0 EXCEPT !.pc[q] = "start", !.route[q] = UsersMe, !.lock[q] = l,
                          !.attempt[q] = 0, !.caller[q] = r,
                          !.outcome[q] = NoOutcome, !.sends[q] = 0, !.backoffs[q] = <<>>,
                          !.retryKind[q] = "none", !.lastStatus[q] = 0, !.hardLeft[q] = 0,
                          !.knownAtIssue[q] = endpoints[UsersMe],
                          !.freshAtIssue[q] = (UsersMe \notin ingested),
                          !.owes[q] = {x \in Reqs : pc[x] \in {"hardwait", "hardsleep"}}]
     IN  Apply(aenter(s1, q))

\* login: `except HTTPException as e: if e.status == 401: raise LoginError(...) from e; raise`
login_raised(kind, status) ==
  IF kind \in {"HTTPException", "Forbidden", "NotFound", "DiscordError"} /\ status = 401
  THEN "LoginError" ELSE kind

\* The request of a login is over.  When it returned, login returns and the request that
\* called it goes on to its transfer; when it raised, login raises into the attempt of that
\* request, whose `except OSError` treats an OSError like one of its own transfer.
LoginReturns(q) ==
  /\ pc[q] = "done" /\ caller[q] # 0
  /\ LET r  == caller[q]
         s1 == [S EXCEPT !.pc[q] = "idle", !.outcome[q] = NoOutcome, !.sends[q] = 0,
                         !.backoffs[q] = <<>>, !.retryKind[q] = "none", !.lastStatus[q] = 0,
                         !.lock[q] = 0, !.route[q] = "k1", !.caller[q] = 0]
     IN  IF outcome[q].kind = "return" THEN Apply(Send(s1, r))
         ELSE IF outcome[q].kind = "OSError"
         THEN \E errno \in (IF sends[q] < max_attempts THEN Errnos \ ECONNRESET ELSE Errnos) :
                Apply(on_oserror(s1, r, errno))
         ELSE Apply(finish(aexit(s1, lock[r]), r,
                           login_raised(outcome[q].kind, lastStatus[q]), None))

LoginNext ==
  \/ \E r \in Reqs, k \in RouteKeys : Call(r, k)
  \/ \E r \in Reqs : ResumeBucket(r)
  \/ \E r \in Reqs : ResumeGlobal(r)
  \/ \E r \in Reqs : Response(r)
  \/ \E r \in Reqs : TransportError(r)
  \/ \E r \in Reqs : Wake(r)
  \/ \E r \in Reqs : Return(r)
  \/ \E l \in LockIds : TimerFire(l)
  \/ Tick
  \/ Close
  \/ \E r \in Reqs : Login(r)
  \/ \E q \in Reqs : LoginReturns(q)

\* The HTTP client with a session that may be closed between and during requests, against
\* a server of the "retry" policy.
LoginInit == Init /\ policy = "retry"

LoginSpec == LoginInit /\ [][LoginNext]_vars

\* The step in which login starts for request r, which found the session closed: the
\* steps of Login(r).
LoggingIn(r) ==
  /\ pc[r] = "relogin"
  /\ closed' = FALSE

\* The step in which the request of a login has ended and login returns or raises into
\* the request that called it: the steps of LoginReturns(q).
LoggedIn(q) ==
  /\ pc[q] = "done" /\ caller[q] # 0
  /\ \E p \in {"send", "backoff", "done"} : pc' = [pc EXCEPT ![q] = "idle", ![caller[q]] = p]

FairLoginNext ==
  \/ FairNext
  \/ Close
  \/ \E r \in Reqs : Login(r)
  \/ \E q \in Reqs : LoginReturns(q)

\* The same client under a fair event loop and an answering server.
FairLoginSpec ==
  /\ LoginInit /\ [][FairLoginNext]_vars
  /\ Fairness
  /\ WF_closed(\E r \in Reqs : LoggingIn(r))
  /\ WF_pc(\E q \in Reqs : LoggedIn(q))

\* ------------------------------------------------------- ConnectionState
\* One ConnectionState per shard (naff/api/gateway/state.py).  Its GatewayClient is the
\* Gateway Connection of the specification: CONNECTING, IDENTIFYING or RESUMING,
\* CONNECTED, and back to DISCONNECTED when the connection is left.

Disconnect == [type |-> "Disconnect", shard |-> 0]

ShardDisconnect(s) == [type |-> "ShardDisconnect", shard |-> s]

\* The close codes a connection can end with; three of them are fatal.
FatalCodes == {4011, 4013, 4014}

CloseCodes == {1000, 4000, 4009} \cup FatalCodes

\* The finally clause of _ws_connect: one lifecycle event, chosen by client.total_shards.
finally_event(total, s) == IF total = 1 THEN Disconnect ELSE ShardDisconnect(s)

ws_connect_exit_keep4013(total, s, how, code) ==
  IF how = "closed"
    THEN [state |-> "failed",
          error |-> IF code \in {4011, 4014} THEN "NaffException" ELSE "WebSocketClosed",
          events |-> <<finally_event(total, s)>>]
    ELSE IF how = "exception"
      THEN [state |-> "done", error |-> "none",
            events |-> <<finally_event(total, s), Disconnect>>]
      ELSE [state |-> "done", error |-> "none", events |-> <<finally_event(total, s)>>]

\* What _ws_connect does when gateway.run() is over: the finally clause, then the except
\* clauses.  A WebSocketClosed with code 4011, 4013 or 4014 becomes a NaffException, any
\* other WebSocketClosed is raised again, any other Exception is answered by a second
\* Disconnect event and a log line, and the task ends without an exception.
ws_connect_exit(total, s, how, code) ==
  IF how = "closed"
    THEN [state |-> "failed",
          error |-> IF code \in {4011, 4013, 4014} THEN "NaffException" ELSE "WebSocketClosed",
          events |-> <<finally_event(total, s)>>]
    ELSE IF how = "exception"
      THEN [state |-> "done", error |-> "none",
            events |-> <<finally_event(total, s), Disconnect>>]
      ELSE [state |-> "done", error |-> "none", events |-> <<finally_event(total, s)>>]

Running(s) == shard_task[s].state = "running"

\* Sharded runs keep to the life cycle of the connection states: events, heartbeats and
\* reconnects inside a connection are exercised with one shard.
Sharded == total_shards > 1

Connected(s) == Running(s) /\ session[s].conn # "DISCONNECTED"

\* start is called for shard s: it awaits http.get_gateway().
Start(s) ==
  /\ s <= total_shards
  /\ start_pc[s] = "idle"
  /\ start_pc' = [start_pc EXCEPT ![s] = "get_gateway"]
  /\ UNCHANGED <<total_shards, start_error, gateway_url, shard_task, gateway,
                 gateway_started, shard_ready, dispatched, session, run_exit>>
  /\ UNCHANGED <<hvars, stopvars, presvars>>

NoTask == [state |-> None, error |-> "none"]

start_resumed_signal_first(ok, task, started) ==
  IF ok
    THEN [pc |-> "await_task", url |-> "wss", task |-> [state |-> "running", error |-> "none"],
          started |-> TRUE, error |-> "none"]
    ELSE [pc |-> "raised", url |-> MISSING, task |-> task, started |-> TRUE,
          error |-> "HTTPException"]

\* start after "await get_gateway()": with the URL it keeps it, creates the task of
\* _ws_connect, sets gateway_started and awaits the task; without it, it raises before
\* any of that.
start_resumed(ok, task, started) ==
  IF ok
    THEN [pc |-> "await_task", url |-> "wss", task |-> [state |-> "running", error |-> "none"],
          started |-> TRUE, error |-> "none"]
    ELSE [pc |-> "raised", url |-> MISSING, task |-> task, started |-> started,
          error |-> "HTTPException"]

\* get_gateway returned.
GetGateway(s) ==
  /\ start_pc[s] = "get_gateway"
  /\ LET x == start_resumed(TRUE, shard_task[s], gateway_started)
     IN  /\ start_pc' = [start_pc EXCEPT ![s] = x.pc]
         /\ gateway_url' = [gateway_url EXCEPT ![s] = x.url]
         /\ shard_task' = [shard_task EXCEPT ![s] = x.task]
         /\ gateway_started' = x.started
         /\ start_error' = [start_error EXCEPT ![s] = x.error]
  /\ UNCHANGED <<total_shards, gateway, shard_ready, dispatched, session, run_exit>>
  /\ UNCHANGED <<hvars, stopvars, presvars>>

\* get_gateway raised.
GetGatewayFails(s) ==
  /\ start_pc[s] = "get_gateway"
  /\ LET x == start_resumed(FALSE, shard_task[s], gateway_started)
     IN  /\ start_pc' = [start_pc EXCEPT ![s] = x.pc]
         /\ shard_task' = [shard_task EXCEPT ![s] = x.task]
         /\ gateway_started' = x.started
         /\ start_error' = [start_error EXCEPT ![s] = x.error]
  /\ UNCHANGED <<total_shards, gateway_url, gateway, shard_ready, dispatched, session,
                 run_exit>>
  /\ UNCHANGED <<hvars, stopvars, presvars>>

\* The task enters "async with GatewayClient(...) as self.gateway": the one connection
\* _ws_connect opens.
Connect(s) ==
  /\ Running(s)
  /\ gateway[s] = MISSING
  /\ gateway' = [gateway EXCEPT ![s] = "GatewayClient"]
  /\ session' = [session EXCEPT ![s].conn = "CONNECTING", ![s].connects = @ + 1]
  /\ UNCHANGED <<total_shards, start_pc, start_error, gateway_url, shard_task,
                 gateway_started, shard_ready, dispatched, run_exit>>
  /\ UNCHANGED <<hvars, stopvars, presvars>>

hello_resume_stale(g) ==
  IF g.session_id # 0 /\ g.sequence # 0
    THEN [g EXCEPT !.conn = "RESUMING", !.resume = <<[session_id |-> g.session_id,
                                                      sequence |-> g.sequence - 1]>>]
    ELSE [g EXCEPT !.conn = "IDENTIFYING"]

\* What the connection sends after HELLO: RESUME when it has a session id and a sequence
\* number, IDENTIFY otherwise.
hello(g) ==
  IF g.session_id # 0 /\ g.sequence # 0
    THEN [g EXCEPT !.conn = "RESUMING", !.resume = <<[session_id |-> g.session_id,
                                                      sequence |-> g.sequence]>>]
    ELSE [g EXCEPT !.conn = "IDENTIFYING"]

\* HELLO arrives on a new connection.
Hello(s) ==
  /\ Connected(s)
  /\ session[s].conn = "CONNECTING"
  /\ session' = [session EXCEPT ![s] = hello(session[s])]
  /\ UNCHANGED <<total_shards, start_pc, start_error, gateway_url, shard_task, gateway,
                 gateway_started, shard_ready, dispatched, run_exit>>
  /\ UNCHANGED <<hvars, stopvars, presvars>>

\* READY answers IDENTIFY: a new session, whose events are numbered from 1.
Ready(s) ==
  /\ Connected(s)
  /\ session[s].conn = "IDENTIFYING"
  /\ session[s].sessions < MaxSessions
  /\ session' = [session EXCEPT ![s].conn = "CONNECTED", ![s].session_id = session[s].sessions + 1,
                                ![s].sessions = @ + 1, ![s].sequence = 0, ![s].cursor = 0,
                                ![s].delivered = {}]
  /\ shard_ready' = [shard_ready EXCEPT ![s] = TRUE]
  /\ UNCHANGED <<total_shards, start_pc, start_error, gateway_url, shard_task, gateway,
                 gateway_started, dispatched, run_exit>>
  /\ UNCHANGED <<hvars, stopvars, presvars>>

\* RESUMED answers RESUME: the server goes on after the sequence number it was given.
Resumed(s) ==
  /\ Connected(s)
  /\ session[s].conn = "RESUMING"
  /\ session' = [session EXCEPT ![s].conn = "CONNECTED",
                                ![s].cursor = Head(session[s].resume).sequence]
  /\ shard_ready' = [shard_ready EXCEPT ![s] = TRUE]
  /\ UNCHANGED <<total_shards, start_pc, start_error, gateway_url, shard_task, gateway,
                 gateway_started, dispatched, run_exit>>
  /\ UNCHANGED <<hvars, stopvars, presvars>>

\* INVALID_SESSION answers IDENTIFY or RESUME: the session id is dropped and the
\* connection identifies again.
InvalidSession(s) ==
  /\ Connected(s)
  /\ session[s].conn \in {"IDENTIFYING", "RESUMING"}
  /\ session' = [session EXCEPT ![s].conn = "IDENTIFYING", ![s].session_id = 0,
                                ![s].sequence = 0]
  /\ UNCHANGED <<total_shards, start_pc, start_error, gateway_url, shard_task, gateway,
                 gateway_started, shard_ready, dispatched, run_exit>>
  /\ UNCHANGED <<hvars, stopvars, presvars>>

\* The server sends the next event of the session; one frame is on the wire at a time.
Frame(s) ==
  /\ Connected(s)
  /\ ~Sharded
  /\ session[s].conn = "CONNECTED"
  /\ session[s].inflight = 0
  /\ session[s].cursor < MaxSeq
  /\ session' = [session EXCEPT ![s].cursor = @ + 1, ![s].inflight = session[s].cursor + 1]
  /\ UNCHANGED <<total_shards, start_pc, start_error, gateway_url, shard_task, gateway,
                 gateway_started, shard_ready, dispatched, run_exit>>
  /\ UNCHANGED <<hvars, stopvars, presvars>>

\* The connection processes the frame: it keeps the sequence number and hands the event on.
Dispatch(s) ==
  /\ Connected(s)
  /\ session[s].conn = "CONNECTED"
  /\ session[s].inflight # 0
  /\ session' = [session EXCEPT ![s].sequence = session[s].inflight, ![s].inflight = 0,
                                ![s].delivered = @ \cup {session[s].inflight},
                                ![s].redelivered = @ \/ session[s].inflight \in session[s].delivered]
  /\ UNCHANGED <<total_shards, start_pc, start_error, gateway_url, shard_task, gateway,
                 gateway_started, shard_ready, dispatched, run_exit>>
  /\ UNCHANGED <<hvars, stopvars, presvars>>

\* gateway.run() is over in _ws_connect: the session is left, the events of
\* ws_connect_exit are dispatched and the task ends as ws_connect_exit says.
Leave(s, how, code) ==
  LET x == ws_connect_exit(total_shards, s, how, code)
  IN  /\ shard_ready' = [shard_ready EXCEPT ![s] = FALSE]
      /\ dispatched' = dispatched \o x.events
      /\ session' = [session EXCEPT ![s].conn = "DISCONNECTED", ![s].inflight = 0]
      /\ shard_task' = [shard_task EXCEPT ![s] = [state |-> x.state, error |-> x.error]]
      /\ run_exit' = [run_exit EXCEPT ![s] = [how |-> how, code |-> code]]
      /\ UNCHANGED <<total_shards, start_pc, start_error, gateway_url, gateway,
                     gateway_started>>
      /\ UNCHANGED <<hvars, stopvars, presvars>>

\* The connection is given up by the GatewayClient itself: a frame on the wire is lost,
\* session id and sequence number are kept for the next connection.
reconnecting(g) ==
  [g EXCEPT !.conn = "RECONNECTING", !.inflight = 0, !.reconnects = @ + 1,
            !.closed_at = <<[session_id |-> g.session_id, sequence |-> g.sequence]>>]

\* The connection is closed with a non-fatal code and the GatewayClient reconnects by
\* itself.
Reconnect(s, code) ==
  /\ Connected(s)
  /\ ~Sharded
  /\ session[s].conn # "RECONNECTING"
  /\ code \notin FatalCodes
  /\ session[s].reconnects < MaxReconnects
  /\ session' = [session EXCEPT ![s] = reconnecting(session[s])]
  /\ shard_ready' = [shard_ready EXCEPT ![s] = FALSE]
  /\ UNCHANGED <<total_shards, start_pc, start_error, gateway_url, shard_task, gateway,
                 gateway_started, dispatched, run_exit>>
  /\ UNCHANGED <<hvars, stopvars, presvars>>

\* RECONNECTING: the GatewayClient opens the next connection, with a fresh heartbeat.
Reopen(s) ==
  /\ Connected(s)
  /\ session[s].conn = "RECONNECTING"
  /\ session' = [session EXCEPT ![s].conn = "CONNECTING", ![s].connects = @ + 1,
                                ![s].acked = TRUE, ![s].beat = "none"]
  /\ UNCHANGED <<total_shards, start_pc, start_error, gateway_url, shard_task, gateway,
                 gateway_started, shard_ready, dispatched, run_exit>>
  /\ UNCHANGED <<hvars, stopvars, presvars>>

heartbeat_unchecked(g) == [g EXCEPT !.acked = FALSE, !.beat = "sent"]

\* The heartbeat interval elapsed in CONNECTED: a heartbeat is sent if the last one was
\* acknowledged, otherwise the session is given up.
heartbeat(g) ==
  IF g.acked
    THEN [g EXCEPT !.acked = FALSE, !.beat = "sent"]
    ELSE [reconnecting(g) EXCEPT !.beat = "missed"]

Beat(s) ==
  /\ Connected(s)
  /\ ~Sharded
  /\ session[s].conn = "CONNECTED"
  /\ session[s].acked \/ session[s].reconnects < MaxReconnects
  /\ session' = [session EXCEPT ![s] = heartbeat(session[s])]
  /\ shard_ready' = [shard_ready EXCEPT ![s] = session[s].acked]
  /\ UNCHANGED <<total_shards, start_pc, start_error, gateway_url, shard_task, gateway,
                 gateway_started, dispatched, run_exit>>
  /\ UNCHANGED <<hvars, stopvars, presvars>>

heartbeat_ack_null_sequence(g) == [g EXCEPT !.acked = TRUE, !.sequence = 0]

\* A HEARTBEAT_ACK frame is processed: a control frame, it carries no sequence number.
heartbeat_ack(g) == [g EXCEPT !.acked = TRUE]

Ack(s) ==
  /\ Connected(s)
  /\ session[s].conn = "CONNECTED"
  /\ ~session[s].acked
  /\ session' = [session EXCEPT ![s] = heartbeat_ack(session[s])]
  /\ UNCHANGED <<total_shards, start_pc, start_error, gateway_url, shard_task, gateway,
                 gateway_started, shard_ready, dispatched, run_exit>>
  /\ UNCHANGED <<hvars, stopvars, presvars>>

\* gateway.run() raises WebSocketClosed(code) into _ws_connect.
Closed(s, code) ==
  /\ Connected(s)
  /\ Leave(s, "closed", code)

\* gateway.run() raises some other exception into _ws_connect.
Crash(s) ==
  /\ Connected(s)
  /\ Leave(s, "exception", 0)

\* The task is over: "await self._shard_task" in start returns or raises what the task
\* raised.  When stop has already put None into _shard_task, it did so after awaiting the
\* same task to its normal end.
Join(s) ==
  /\ start_pc[s] = "await_task"
  /\ shard_task[s].state \in {"done", "failed", None}
  /\ start_pc' = [start_pc EXCEPT ![s] = IF shard_task[s].state = "failed"
                                          THEN "raised" ELSE "returned"]
  /\ start_error' = [start_error EXCEPT ![s] = shard_task[s].error]
  /\ UNCHANGED <<total_shards, gateway_url, shard_task, gateway, gateway_started,
                 shard_ready, dispatched, session, run_exit>>
  /\ UNCHANGED <<hvars, stopvars, presvars>>

\* GatewayClient.close(): the connection is asked to close, which makes run() return.
close(g) == [g EXCEPT !.closing = TRUE]

stop_resumed_keeps_signal(task, started) ==
  IF task.state = "failed"
    THEN [pc |-> "raised", error |-> task.error, task |-> task, started |-> started]
    ELSE [pc |-> "returned", error |-> "none", task |-> NoTask, started |-> started]

\* stop after "await self._shard_task": the await raises what the task raised, otherwise
\* _shard_task becomes None and gateway_started is cleared.
stop_resumed(task, started) ==
  IF task.state = "failed"
    THEN [pc |-> "raised", error |-> task.error, task |-> task, started |-> started]
    ELSE [pc |-> "returned", error |-> "none", task |-> NoTask, started |-> FALSE]

\* stop up to its await.  A gateway that is not None is closed and forgotten; MISSING, the
\* value before the first connection, is not None and has no close() to call.  Without a
\* task stop clears gateway_started at once; a task that is already over is awaited
\* without suspending.
stop_called(gw, g, task, started) ==
  IF gw = MISSING
    THEN [pc |-> "raised", error |-> "TypeError", gateway |-> gw, session |-> g,
          task |-> task, started |-> started]
    ELSE LET g2 == IF gw # None THEN close(g) ELSE g
         IN  IF task.state = None
               THEN [pc |-> "returned", error |-> "none", gateway |-> None, session |-> g2,
                     task |-> task, started |-> FALSE]
               ELSE IF task.state = "running"
                 THEN [pc |-> "await_task", error |-> "none", gateway |-> None,
                       session |-> g2, task |-> task, started |-> started]
                 ELSE LET x == stop_resumed(task, started)
                      IN  [pc |-> x.pc, error |-> x.error, gateway |-> None, session |-> g2,
                           task |-> x.task, started |-> x.started]

\* stop is called for shard s.
Stop(s) ==
  /\ s <= total_shards
  /\ stop_pc[s] = "idle"
  /\ LET x == stop_called(gateway[s], session[s], shard_task[s], gateway_started)
     IN  /\ stop_pc' = [stop_pc EXCEPT ![s] = x.pc]
         /\ stop_error' = [stop_error EXCEPT ![s] = x.error]
         /\ gateway' = [gateway EXCEPT ![s] = x.gateway]
         /\ session' = [session EXCEPT ![s] = x.session]
         /\ shard_task' = [shard_task EXCEPT ![s] = x.task]
         /\ gateway_started' = x.started
  /\ UNCHANGED <<total_shards, start_pc, start_error, gateway_url, shard_ready, dispatched,
                 run_exit>>
  /\ UNCHANGED <<hvars, presvars>>

\* The task is over: "await self._shard_task" in stop returns or raises.
StopJoin(s) ==
  /\ stop_pc[s] = "await_task"
  /\ shard_task[s].state \in {"done", "failed"}
  /\ LET x == stop_resumed(shard_task[s], gateway_started)
     IN  /\ stop_pc' = [stop_pc EXCEPT ![s] = x.pc]
         /\ stop_error' = [stop_error EXCEPT ![s] = x.error]
         /\ shard_task' = [shard_task EXCEPT ![s] = x.task]
         /\ gateway_started' = x.started
  /\ UNCHANGED <<total_shards, start_pc, start_error, gateway_url, gateway, shard_ready,
                 dispatched, session, run_exit>>
  /\ UNCHANGED <<hvars, presvars>>

\* gateway.run() returns in _ws_connect because the connection was asked to close.
RunReturns(s) ==
  /\ Connected(s)
  /\ session[s].closing
  /\ Leave(s, "return", 0)

\* ------------------------------------------------------- change_presence
\* Values are tagged with their Python type: t is "Status", "Activity", "str", "list",
\* "None" or "MISSING".

StatusNames == {"ONLINE", "DND", "IDLE"}

Member(name) == [t |-> "Status", v |-> name]

Str(x) == [t |-> "str", v |-> x]

NoneValue == [t |-> "None", v |-> ""]

\* str.upper() on the strings a caller passes.
upper(x) == CASE x = "dnd" -> "DND"
              [] x = "online" -> "ONLINE"
              [] x = "idle" -> "IDLE"
              [] x = "bogus" -> "BOGUS"
              [] OTHER -> x

\* The statuses a caller passes: a Status member, the name of one, a string that names
\* none, None.
StatusInputs == {Member("DND"), Str("dnd"), Str("bogus"), NoneValue}

ActivityType == [GAME |-> 0, STREAMING |-> 1, LISTENING |-> 2, WATCHING |-> 3, CUSTOM |-> 4,
                 COMPETING |-> 5]

AllowedTypes == {"GAME", "STREAMING", "LISTENING", "WATCHING", "COMPETING"}

Activity(type, url) == [t |-> "Activity", type |-> type, url |-> url]

NotActivity(t) == [t |-> t, type |-> "", url |-> ""]

\* Activity.create(name=...): a game without URL.
create == Activity("GAME", "")

\* The activities a caller passes: nothing, None, a string, allowed and disallowed ones.
ActivityInputs ==
  {NotActivity("MISSING"), NotActivity("None"), NotActivity("str"), Activity("WATCHING", ""),
   Activity("STREAMING", "u"), Activity("STREAMING", ""), Activity("CUSTOM", "")}

Disallowed(a) ==
  /\ a.t = "Activity"
  /\ \/ a.type = "STREAMING" /\ a.url = ""
     \/ a.type \notin AllowedTypes

\* Activity.to_dict(), as far as the type and the URL go.
to_dict(a) == [type |-> ActivityType[a.type], url |-> IF a.url = "" THEN None ELSE a.url]

\* Python truth of a status or activity value.
truthy(x) ==
  CASE x.t \in {"None", "MISSING", "list"} -> FALSE
    [] x.t = "str" -> x.v # ""
    [] OTHER -> TRUE

Payload(a) == IF truthy(a) THEN <<to_dict(a)>> ELSE <<>>

change_presence_strict(gw, cstatus, cactivity, status, activity) ==
  LET a == IF activity.t = "MISSING" THEN cactivity
           ELSE IF activity.t = "None" THEN NotActivity("list")
           ELSE IF activity.t = "Activity" THEN activity ELSE create
      warned == activity.t # "MISSING" /\ Disallowed(a)
      bad == truthy(status) /\ status.t # "Status" /\ upper(status.v) \notin StatusNames
      st == IF truthy(status)
              THEN (IF status.t = "Status" THEN status ELSE Member(upper(status.v)))
              ELSE (IF truthy(cstatus) THEN cstatus ELSE Member("ONLINE"))
  IN  IF bad \/ warned
        THEN [warned |-> warned, error |-> "ValueError", status |-> cstatus,
              activity |-> cactivity, sent |-> <<>>]
        ELSE [warned |-> warned \/ (~truthy(status) /\ ~truthy(cstatus)),
              error |-> IF gw = "GatewayClient" THEN "none" ELSE "TypeError",
              status |-> st, activity |-> a,
              sent |-> IF gw = "GatewayClient"
                         THEN <<[activity |-> Payload(a), status |-> st.v]>> ELSE <<>>]

\* A change_presence that records the activity before it looks at the status.
change_presence_activity_first(gw, cstatus, cactivity, status, activity) ==
  LET a == IF activity.t = "MISSING" THEN cactivity
           ELSE IF activity.t = "None" THEN NotActivity("list")
           ELSE IF activity.t = "Activity" THEN activity ELSE create
      warned == activity.t # "MISSING" /\ Disallowed(a)
      bad == truthy(status) /\ status.t # "Status" /\ upper(status.v) \notin StatusNames
      st == IF truthy(status)
              THEN (IF status.t = "Status" THEN status ELSE Member(upper(status.v)))
              ELSE (IF truthy(cstatus) THEN cstatus ELSE Member("ONLINE"))
  IN  IF bad
        THEN [warned |-> warned, error |-> "ValueError", status |-> cstatus,
              activity |-> a, sent |-> <<>>]
        ELSE [warned |-> warned \/ (~truthy(status) /\ ~truthy(cstatus)),
              error |-> IF gw = "GatewayClient" THEN "none" ELSE "TypeError",
              status |-> st, activity |-> a,
              sent |-> IF gw = "GatewayClient"
                         THEN <<[activity |-> Payload(a), status |-> st.v]>> ELSE <<>>]

\* ConnectionState.change_presence(status, activity) with gateway gw and the client's
\* recorded status and activity: what it logs, raises, records and sends.  A disallowed
\* activity is only logged; a string that names no Status member raises ValueError before
\* anything is recorded; a gateway that is MISSING or None has no change_presence to call.
change_presence(gw, cstatus, cactivity, status, activity) ==
  LET a == IF activity.t = "MISSING" THEN cactivity
           ELSE IF activity.t = "None" THEN NotActivity("list")
           ELSE IF activity.t = "Activity" THEN activity ELSE create
      warned == activity.t # "MISSING" /\ Disallowed(a)
      bad == truthy(status) /\ status.t # "Status" /\ upper(status.v) \notin StatusNames
      st == IF truthy(status)
              THEN (IF status.t = "Status" THEN status ELSE Member(upper(status.v)))
              ELSE (IF truthy(cstatus) THEN cstatus ELSE Member("ONLINE"))
  IN  IF bad
        THEN [warned |-> warned, error |-> "ValueError", status |-> cstatus,
              activity |-> cactivity, sent |-> <<>>]
        ELSE [warned |-> warned \/ (~truthy(status) /\ ~truthy(cstatus)),
              error |-> IF gw = "GatewayClient" THEN "none" ELSE "TypeError",
              status |-> st, activity |-> a,
              sent |-> IF gw = "GatewayClient"
                         THEN <<[activity |-> Payload(a), status |-> st.v]>> ELSE <<>>]

\* change_presence is called on shard s.
ChangePresence(s, status, activity) ==
  /\ s <= total_shards
  /\ ~Sharded
  /\ presence.calls < MaxPresence
  /\ LET x == change_presence(gateway[s], client_status, client_activity, status, activity)
     IN  /\ client_status' = x.status
         /\ client_activity' = x.activity
         /\ presence' = [shard |-> s, calls |-> presence.calls + 1, status |-> status,
                         activity |-> activity, gateway |-> gateway[s],
                         warned |-> x.warned, error |-> x.error, sent |-> x.sent]
  /\ UNCHANGED <<total_shards, start_pc, start_error, gateway_url, shard_task, gateway,
                 gateway_started, shard_ready, dispatched, session, run_exit>>
  /\ UNCHANGED <<hvars, stopvars>>

GwInit ==
  /\ HttpInit /\ policy = "bucket" /\ endpoints = [k \in RouteKeys |-> None]
  /\ StateInit
  /\ total_shards \in 1..NShards

GwNext ==
  \E s \in Shards :
    \/ Start(s)
    \/ GetGateway(s)
    \/ GetGatewayFails(s)
    \/ Connect(s)
    \/ Hello(s)
    \/ Ready(s)
    \/ Resumed(s)
    \/ InvalidSession(s)
    \/ Frame(s)
    \/ Dispatch(s)
    \/ \E code \in CloseCodes : Reconnect(s, code)
    \/ Reopen(s)
    \/ Beat(s)
    \/ Ack(s)
    \/ \E code \in CloseCodes : Closed(s, code)
    \/ Crash(s)
    \/ Join(s)
    \/ Stop(s)
    \/ StopJoin(s)
    \/ RunReturns(s)
    \/ \E status \in StatusInputs, activity \in ActivityInputs :
         ChangePresence(s, status, activity)

GwSpec == GwInit /\ [][GwNext]_vars

GwTypeOK ==
  /\ total_shards \in 1..NShards
  /\ start_pc \in [Shards -> {"idle", "get_gateway", "await_task", "returned", "raised"}]
  /\ stop_pc \in [Shards -> {"idle", "await_task", "returned", "raised"}]
  /\ gateway_started \in BOOLEAN
  /\ \A s \in Shards :
       /\ shard_task[s].state \in {None, "running", "done", "failed"}
       /\ session[s].sequence \in 0..MaxSeq
       /\ session[s].cursor \in 0..MaxSeq
       /\ session[s].session_id \in 0..MaxSessions
       /\ shard_ready[s] => session[s].conn = "CONNECTED"
       /\ s > total_shards => start_pc[s] = "idle"

\* ------------------------------------------------------------ claims

InFlight(r) == pc[r] = "send"

Is2xx(status) == 300 > status /\ status >= 200

\* C1: no two calls that share a discovered bucket hash (the hash recorded for the route
\* key of each when it was issued) have a transfer in flight at the same time.
C1_SameHashNeverConcurrent ==
  \A r1, r2 \in Reqs :
    (r1 # r2 /\ InFlight(r1) /\ InFlight(r2) /\ knownAtIssue[r1] # None)
      => knownAtIssue[r1] # knownAtIssue[r2]

\* C2: while a hard global lock is pending (retry_after seconds from a global 429 have not
\* passed) the request that received it is queued for or holds the global lock, and no
\* request issued during that time has a transfer in flight.
C2_HardLockBlocksLaterRequests ==
  /\ \A q \in Reqs : hardLeft[q] > 0 => pc[q] \in {"hardwait", "hardsleep"}
  /\ \A r \in Reqs : InFlight(r) => owes[r] = {}

\* A request issued during a hard lock is queued behind it at the global lock.
C2_Witness ==
  \E r, q \in Reqs :
    /\ q \in owes[r] /\ pc[q] = "hardsleep" /\ hardLeft[q] > 0
    /\ pc[r] = "throttle"

\* C3: after a 2xx response with remaining = 0 and reset-after = d the bucket lock stays
\* held for d seconds, no request holding that lock has a transfer in flight during them,
\* and the call that got the response has ended with its result before any of the d
\* seconds has passed.
C3_ExhaustedBucketHoldsLock ==
  /\ \A l \in LockIds : holdLeft[l] > 0 => bl[l].locked
  /\ \A r \in Reqs : InFlight(r) => holdLeft[lock[r]] = 0
  /\ \A r \in Reqs :
       (pc[r] = "done" /\ Is2xx(lastStatus[r]) /\ outcome[r].lock = "deferred")
         => /\ outcome[r].kind = "return" /\ outcome[r].body \in Bodies
            /\ holdLeft[lock[r]] = bl[lock[r]].delta

\* A later request waits for the bucket lock that the exhausted bucket keeps held.
C3_Witness ==
  \E r \in Reqs :
    /\ pc[r] = "acquire" /\ holdLeft[lock[r]] > 0
    /\ \A q \in Reqs : q # r => pc[q] = "idle"

\* C4: a call that ends without an exception ends after a 2xx response.
C4_ReturnsOnlyAfter2xx ==
  \A r \in Reqs :
    (pc[r] = "done" /\ outcome[r].kind = "return") => Is2xx(lastStatus[r])

\* C5: no call issues more than max_attempts transfers.
C5_AtMostMaxAttempts == \A r \in Reqs : sends[r] <= max_attempts

\* A call has its last transfer in flight.
C5_Witness == \E r \in Reqs : InFlight(r) /\ sends[r] = max_attempts

\* C6 (as stated): a global 429 consumes no attempt: when the hard lock is over the call
\* goes on with as many attempts left as before the response.
C6_GlobalKeepsAttempts ==
  [][\A r \in Reqs :
       (pc[r] = "hardsleep" /\ pc'[r] # "hardsleep")
         => pc'[r] # "done" /\ attempt'[r] = attempt[r]]_vars

\* C6 (amended): a global 429 hard-locks the global lock for retry_after seconds and then
\* consumes an attempt like every other retry: the call goes to its next attempt when one
\* is left, and ends by returning None when the response was to its last attempt.
C6_GlobalConsumesAttempt ==
  [][\A r \in Reqs :
       (pc[r] = "hardsleep" /\ pc'[r] # "hardsleep")
         => /\ hardLeft[r] = 0
            /\ IF attempt[r] + 1 < max_attempts
               THEN /\ attempt'[r] = attempt[r] + 1
                    /\ pc'[r] \in {"acquire", "throttle", "tokenwait", "send"}
               ELSE /\ pc'[r] = "done"
                    /\ outcome'[r].kind = "return" /\ outcome'[r].body = None]_vars

\* A call retried only for global 429s has the transfer of a later attempt in flight.
C6_Witness ==
  \E r \in Reqs : InFlight(r) /\ retryKind[r] = "global" /\ attempt[r] >= 1

\* C7: a call that got k <= 2 responses with 500/502/504, each retried, and then a 2xx
\* response returns the body of the 2xx response after k + 1 transfers, having slept
\* 1 + 2 * attempt seconds after the response to each attempt (1, then 3).
C7_ServerErrorBackoff ==
  \A r \in Reqs :
    (pc[r] = "done" /\ retryKind[r] = "5xx" /\ Is2xx(lastStatus[r]))
      => /\ outcome[r].kind = "return" /\ outcome[r].body \in Bodies
         /\ Len(backoffs[r]) \in 1..2
         /\ sends[r] = Len(backoffs[r]) + 1
         /\ \A i \in DOMAIN backoffs[r] : backoffs[r][i] = 1 + 2 * (i - 1)

\* A call has returned the body of a 2xx response after two server errors.
C7_Witness ==
  \E r \in Reqs :
    /\ pc[r] = "done" /\ retryKind[r] = "5xx" /\ Is2xx(lastStatus[r])
    /\ backoffs[r] = <<1, 3>> /\ outcome[r].kind = "return"

\* A call ended by the response to its last transfer, not by a retry running out of
\* attempts nor by a transport error.
EndedByResponse(r) ==
  /\ pc[r] = "done" /\ lastStatus[r] # 0
  /\ outcome[r].kind # "OSError"
  /\ ~(outcome[r].kind = "return" /\ outcome[r].body = None)

\* C8: a call ended by a response whose status is not 2xx fails with the error of that
\* status, carrying the response body: Forbidden for 403, NotFound for 404, DiscordError
\* for 500 and above, HTTPException for any other.
C8_TypedErrorByStatus ==
  \A r \in Reqs :
    (EndedByResponse(r) /\ ~Is2xx(lastStatus[r]))
      => /\ outcome[r].body \in Bodies
         /\ lastStatus[r] = 403 => outcome[r].kind = "Forbidden"
         /\ lastStatus[r] = 404 => outcome[r].kind = "NotFound"
         /\ lastStatus[r] >= 500 => outcome[r].kind = "DiscordError"
         /\ (lastStatus[r] < 500 /\ lastStatus[r] \notin {403, 404})
              => outcome[r].kind = "HTTPException"

\* A call has failed with DiscordError after a 503, which no retry rule handles.
C8_Witness ==
  \E r \in Reqs :
    EndedByResponse(r) /\ lastStatus[r] = 503 /\ outcome[r].kind = "DiscordError"

\* A request is inside the `async with lock:` scope of bucket lock l.
InScope(r, l) ==
  lock[r] = l /\ pc[r] \in {"throttle", "tokenwait", "send", "hardwait", "hardsleep",
                            "defersleep", "backoff"}

\* C9: whenever no request is inside the scope of a bucket lock, the lock is released or a
\* scheduled release of it is pending; in particular so it is when a call has ended.
C9_ReleasedOrScheduled ==
  /\ \A r \in Reqs : pc[r] = "done" => outcome[r].lock \in {"released", "deferred"}
  /\ \A l \in LockIds :
       (bl[l].locked /\ \A r \in Reqs : ~InScope(r, l)) => scheduled[l] # <<>>

\* A call has ended and left its bucket lock held, with the release scheduled.
C9_Witness ==
  \E r \in Reqs :
    /\ pc[r] = "done" /\ outcome[r].lock = "deferred"
    /\ bl[lock[r]].locked /\ scheduled[lock[r]] # <<>>

\* C10 (as stated): two calls for the same route key, both issued before any response for
\* it was ingested, are serialized through one lock: they have the same bucket lock and
\* never both a transfer in flight.
C10_FreshCallsSerialized ==
  \A r1, r2 \in Reqs :
    (r1 # r2 /\ Active(S, r1) /\ Active(S, r2) /\ route[r1] = route[r2]
       /\ freshAtIssue[r1] /\ freshAtIssue[r2])
      => lock[r1] = lock[r2] /\ ~(InFlight(r1) /\ InFlight(r2))

\* C10 (amended): a call issued before any response for its route key was ingested gets a
\* new, unregistered lock of its own: two such calls never have the same lock, and two
\* running calls have the same lock only if one of them found a hash recorded for its
\* route key.
C10_FreshCallsOwnLocks ==
  \A r1, r2 \in Reqs :
    (r1 # r2 /\ Active(S, r1) /\ Active(S, r2))
      => /\ (freshAtIssue[r1] /\ freshAtIssue[r2]) => lock[r1] # lock[r2]
         /\ lock[r1] = lock[r2] => (knownAtIssue[r1] # None \/ knownAtIssue[r2] # None)

\* Two calls for one route key, both issued before any response for it, have their
\* transfers in flight together.
C10_Witness ==
  \E r1, r2 \in Reqs :
    /\ r1 # r2 /\ route[r1] = route[r2] /\ freshAtIssue[r1] /\ freshAtIssue[r2]
    /\ InFlight(r1) /\ InFlight(r2) /\ lock[r1] # lock[r2]

\* The number a response header carries, or the default when the header is absent.
HeaderNum(header, key, default) ==
  IF key \in DOMAIN header THEN int(header[key]) ELSE default

\* The lock and the registry hold what this header says, as far as the lock is still alive.
Fed(r, header) ==
  LET l == lock[r]
      b == HeaderGet(header, "x-ratelimit-bucket", None)
  IN  /\ route[r] \in ingested
      /\ b # None => endpoints[route[r]] = b
      /\ Referenced(S, l) =>
           /\ bl[l].bucket_hash = b
           /\ bl[l].limit = HeaderNum(header, "x-ratelimit-limit", -1)
           /\ bl[l].remaining = HeaderNum(header, "x-ratelimit-remaining", -1)
           /\ bl[l].delta = HeaderNum(header, "x-ratelimit-reset-after", 0)
           /\ b # None => ratelimit_locks[b] = l

\* C11: whatever the status of a response, when the request has acted on it (retry, raise
\* or return) the bucket lock's hash, limit, remaining and reset-delay and the registry
\* are those of the response's headers.
C11_EveryResponseIngested ==
  handled.req # 0 => Fed(handled.req, handled.resp.header)

\* The first response of a run was a 500, is being retried, and its bucket is registered.
C11_Witness ==
  \E r \in Reqs :
    /\ handled.req = r
    /\ calls = 1 /\ sends[r] = 1 /\ pc[r] = "backoff" /\ retryKind[r] = "5xx"
    /\ bl[lock[r]].bucket_hash # None
    /\ endpoints[route[r]] = bl[lock[r]].bucket_hash
    /\ ratelimit_locks[bl[lock[r]].bucket_hash] = lock[r]

\* The time a non-global 429 asks the bucket lock to be kept: retry_after of the body for a
\* shared limit, the reset-delay of the response's headers otherwise.
DeferFor(resp) ==
  IF resp.message = SharedMessage THEN resp.retry_after
  ELSE HeaderNum(resp.header, "x-ratelimit-reset-after", 0)

\* C12: a request that got a non-global 429 keeps its bucket lock held, by a sleep of at
\* least retry_after seconds for a shared limit and of the bucket's reset-delay otherwise,
\* while no other request using that lock is past acquiring it; when the sleep is over it
\* releases the lock and goes to its next attempt, if one is left.
C12_BucketLimitDefersUnlock ==
  /\ [](\A r \in Reqs :
          (handled.req = r /\ handled.resp.status = 429 /\ ~handled.resp.global)
            => pc[r] = "defersleep" /\ sleep[r] >= DeferFor(handled.resp))
  /\ [](\A r \in Reqs : pc[r] = "defersleep" =>
          /\ bl[lock[r]].locked
          /\ \A q \in Reqs : (q # r /\ lock[q] = lock[r]) => pc[q] = "acquire")
  /\ [][\A r \in Reqs :
          (pc[r] = "defersleep" /\ pc'[r] # "defersleep")
            => /\ sleep[r] = 0
               /\ IF attempt[r] + 1 < max_attempts
                  THEN /\ attempt'[r] = attempt[r] + 1
                       /\ \/ pc'[r] \in {"throttle", "tokenwait", "send"}
                          \/ pc'[r] = "acquire" /\ ~bl'[lock[r]].locked
                  ELSE pc'[r] = "done" /\ outcome'[r].lock = "released"]_vars

\* A request sleeps on a bucket 429 with the lock held while another waits for that lock.
C12_Witness ==
  \E r, q \in Reqs :
    /\ pc[r] = "defersleep" /\ sleep[r] > 0
    /\ pc[q] = "acquire" /\ lock[q] = lock[r]

\* C13: a transfer that fails with a connection-reset or broken-pipe error is retried while
\* attempts remain, so a call that ends with the transport error has used all its
\* attempts, and it has released its bucket lock.
C13_TransportErrorRetried ==
  \A r \in Reqs :
    (pc[r] = "done" /\ outcome[r].kind = "OSError")
      => sends[r] = max_attempts /\ outcome[r].lock = "released"

\* C14: a request is never kept waiting by the lock of another bucket: when a request
\* whose route key had, and still has, a recorded bucket hash waits for a held bucket lock,
\* the bucket of that lock (the hash of the last response ingested into it) is the
\* request's bucket, if the lock has one.
C14_DifferentBucketsNotBlocked ==
  \A q \in Reqs :
    (pc[q] = "acquire" /\ bl[lock[q]].locked
       /\ knownAtIssue[q] # None /\ endpoints[route[q]] = knownAtIssue[q]
       /\ bl[lock[q]].bucket_hash # None)
      => bl[lock[q]].bucket_hash = knownAtIssue[q]

\* The tasks inside the Global Lock's critical section: sleeping for a token, or sleeping
\* through a hard-lock window.
InGlobal == {r \in Reqs : pc[r] \in {"tokenwait", "hardsleep"}}

\* C15: at most one task at a time is inside the Global Lock's critical section, and the
\* lock is held while one is; a step issues at most one transfer, and issuing it takes
\* exactly one token of the current window, which is never overdrawn.
C15_GlobalLockExclusive ==
  /\ [](Cardinality(InGlobal) <= 1 /\ (InGlobal # {} => glocked) /\ tokens \in 0..TokenCap)
  /\ [][\A r \in Reqs :
          (pc[r] # "send" /\ pc'[r] = "send")
            => /\ sends'[r] = sends[r] + 1
               /\ tokens' = (IF cdLeft = 0 THEN TokenCap ELSE tokens) - 1
               /\ \A q \in Reqs : (q # r /\ pc'[q] = "send") => pc[q] = "send"]_vars

\* One request is inside a hard-lock window while a second hard lock waits for its turn.
C15_Witness ==
  \E r, q \in Reqs : pc[r] = "hardsleep" /\ sleep[r] > 0 /\ pc[q] = "hardwait"

\* Header sets with any of the rate-limit fields missing.
AnyHeaders ==
  {MkHeader(keys, b, m, d) : keys \in SUBSET RLKeys, b \in {"h1"}, m \in {0, 1},
                             d \in {MaxDelay}}

\* The four fields ingest_ratelimit_header writes.
Fields(b) == <<b.bucket_hash, b.limit, b.remaining, b.delta>>

\* C16: for the bucket lock of every running request and every header set, with any of
\* the rate-limit fields missing, ingesting the headers twice leaves the lock as ingesting them once does; so the
\* lock a response was just ingested into is unchanged by ingesting that response again.
C16_IngestIdempotent ==
  /\ \A l \in {lock[r] : r \in {q \in Reqs : Active(S, q)}} : \A header \in AnyHeaders :
       Fields(ingest_ratelimit_header(ingest_ratelimit_header(bl[l], header), header))
         = Fields(ingest_ratelimit_header(bl[l], header))
  /\ (handled.req # 0 /\ Referenced(S, lock[handled.req]))
       => ingest_ratelimit_header(bl[lock[handled.req]], handled.resp.header)
            = bl[lock[handled.req]]

\* A lock that carried a bucket hash has just ingested a response without rate-limit
\* headers.
C16_Witness ==
  /\ handled.req # 0 /\ Referenced(S, lock[handled.req])
  /\ "x-ratelimit-bucket" \notin DOMAIN handled.resp.header
  /\ endpoints[route[handled.req]] # None
  /\ sends[handled.req] >= 2
  /\ bl[lock[handled.req]].remaining = -1


\* C17: when the connection of a shard closes with code 4011, 4013 or 4014, the task of
\* _ws_connect fails with a NaffException, start raises it to its caller, and the shard
\* stays disconnected: no further connection is attempted.
C17_FatalCloseRaisesNaffException ==
  \A s \in Shards :
    (run_exit[s].how = "closed" /\ run_exit[s].code \in FatalCodes) =>
      /\ shard_task[s] = [state |-> "failed", error |-> "NaffException"]
      /\ session[s].conn = "DISCONNECTED"
      /\ start_pc[s] \in {"await_task", "raised"}
      /\ start_pc[s] = "raised" => start_error[s] = "NaffException"

C17_Witness ==
  \E s \in Shards :
    /\ run_exit[s] = [how |-> "closed", code |-> 4013]
    /\ start_pc[s] = "raised"
    /\ start_error[s] = "NaffException"

\* C18: when the connection of a shard closes with a code other than 4011, 4013 and 4014,
\* the closure is not surfaced to the caller of start: the task of the shard keeps running
\* (to reconnect) and start does not raise WebSocketClosed.
C18_OtherCloseNotSurfaced ==
  \A s \in Shards :
    (run_exit[s].how = "closed" /\ run_exit[s].code \notin FatalCodes) =>
      /\ shard_task[s].state = "running"
      /\ start_error[s] # "WebSocketClosed"

\* C19: when gateway.run() of a shard raised an unexpected exception, the session is torn
\* down, a disconnect event has been dispatched, nothing is raised to the caller of start,
\* and the Connection State goes on to a fresh connection attempt: its task is not over.
C19_ExceptionLeadsToFreshAttempt ==
  \A s \in Shards :
    run_exit[s].how = "exception" =>
      /\ \E i \in DOMAIN dispatched : dispatched[i].type \in {"Disconnect", "ShardDisconnect"}
      /\ start_pc[s] # "raised"
      /\ shard_task[s].state = "running"

\* C20: RESUME round trip.  A connection that resumes sends the session id and the
\* sequence number the session had when it was disconnected, and after RESUMED no event
\* with a sequence number up to that one is on its way to the client or delivered again.
C20_ResumeRoundTrip ==
  \A s \in Shards :
    LET g == session[s]
    IN  /\ g.conn = "RESUMING" => g.resume = g.closed_at
        /\ (g.conn = "CONNECTED" /\ g.resume # <<>> /\ g.inflight # 0
              /\ Head(g.resume).session_id = g.session_id)
             => g.inflight > Head(g.resume).sequence
        /\ ~g.redelivered

C20_Witness ==
  \E s \in Shards :
    LET g == session[s]
    IN  /\ g.conn = "CONNECTED"
        /\ g.resume = <<[session_id |-> g.session_id, sequence |-> 1]>>
        /\ g.closed_at = g.resume
        /\ g.sequence = 2
        /\ g.delivered = {1, 2}


\* C21: in CONNECTED, when the heartbeat interval elapses, a heartbeat is sent if the
\* previous one was acknowledged, and otherwise the session is given up and the
\* connection goes to RECONNECTING; a connection that stays CONNECTED without an
\* acknowledgement has a heartbeat outstanding.
C21_MissedAckReconnects ==
  /\ [](\A s \in Shards :
          /\ (session[s].conn = "CONNECTED" /\ ~session[s].acked) => session[s].beat = "sent"
          /\ session[s].beat = "missed" => session[s].conn \in {"RECONNECTING", "DISCONNECTED"})
  /\ [][\A s \in Shards :
          Beat(s) =>
            IF session[s].acked
              THEN session'[s].conn = "CONNECTED" /\ ~session'[s].acked
              ELSE session'[s].conn = "RECONNECTING"]_vars

C21_Witness ==
  \E s \in Shards :
    /\ session[s].conn = "RECONNECTING"
    /\ session[s].beat = "missed"
    /\ ~session[s].acked


\* C22: while a Gateway Session is alive (its session id stays the same), no step makes
\* its last-received sequence number smaller, whichever frame is processed.
C22_SequenceNeverDecreases ==
  [][\A s \in Shards :
       (session[s].session_id # 0 /\ session'[s].session_id = session[s].session_id)
         => session'[s].sequence >= session[s].sequence]_vars

C22_Witness ==
  \E s \in Shards :
    /\ session[s].conn = "CONNECTED"
    /\ session[s].sequence = MaxSeq
    /\ session[s].resume # <<>>
    /\ session[s].beat = "sent"
    /\ session[s].acked


\* C23: start resolves the gateway URL before it creates the task, the step that creates
\* the task also sets gateway_started and leaves start waiting for the task, and start
\* comes back only when the task is over; when resolving the URL fails, start raises
\* without a task, without a URL and without touching gateway_started.
C23_StartOrder ==
  /\ [](\A s \in Shards :
          /\ start_pc[s] \in {"idle", "get_gateway"} => shard_task[s].state = None
          /\ shard_task[s].state # None => gateway_url[s] # MISSING
          /\ start_error[s] = "HTTPException" =>
               shard_task[s].state = None /\ gateway_url[s] = MISSING)
  /\ [][\A s \in Shards :
          /\ (start_pc[s] # "await_task" /\ start_pc'[s] = "await_task") =>
               /\ start_pc[s] = "get_gateway"
               /\ gateway_url'[s] # MISSING
               /\ shard_task'[s].state = "running"
               /\ gateway_started'
          /\ (start_pc[s] = "get_gateway" /\ start_pc'[s] = "raised") =>
               UNCHANGED <<gateway_started, shard_task, gateway_url>>
          /\ (start_pc[s] # "returned" /\ start_pc'[s] = "returned") =>
               start_pc[s] = "await_task" /\ shard_task[s].state # "running"
          /\ (start_pc[s] = "await_task" /\ start_pc'[s] = "raised") =>
               shard_task[s].state = "failed"]_vars

C23_Witness ==
  \E s, q \in Shards :
    /\ start_pc[s] = "returned"
    /\ run_exit[s].how = "return"
    /\ start_pc[q] = "raised"
    /\ start_error[q] = "HTTPException"
    /\ ~gateway_started


\* C24: a stop that was called on a running shard has asked the gateway connection to close
\* while it waits, and when it returns the task of the shard is over, the state holds
\* neither a gateway nor a task, the connection is left and gateway_started is clear.
C24_StopLeavesShardStopped ==
  /\ [](\A s \in Shards :
          stop_pc[s] = "await_task" => gateway[s] = None /\ session[s].closing)
  /\ [][\A s \in Shards :
          (stop_pc[s] = "await_task" /\ stop_pc'[s] = "returned") =>
            /\ shard_task[s].state = "done"
            /\ run_exit[s].how # "none"
            /\ session'[s].closing
            /\ session'[s].conn = "DISCONNECTED"
            /\ gateway'[s] = None
            /\ shard_task'[s] = NoTask
            /\ ~gateway_started']_vars

C24_Witness ==
  \E s \in Shards :
    /\ stop_pc[s] = "returned"
    /\ run_exit[s].how = "return"
    /\ session[s].sequence > 0
    /\ gateway[s] = None
    /\ shard_task[s] = NoTask
    /\ ~gateway_started


\* C25: a call of change_presence with a disallowed activity (streaming without URL, or a
\* type outside game, streaming, listening, watching, competing), a valid status and a
\* gateway connection logs a warning and does not raise; the client records the status and
\* that activity, and the presence update with that activity is sent over the gateway.
C25_DisallowedActivityOnlyWarns ==
  (/\ presence.calls > 0
   /\ Disallowed(presence.activity)
   /\ presence.status # Str("bogus")
   /\ presence.gateway = "GatewayClient")
    => /\ presence.warned
       /\ presence.error = "none"
       /\ client_activity = presence.activity
       /\ client_status.t = "Status"
       /\ client_status.v \in StatusNames
       /\ presence.sent = <<[activity |-> <<to_dict(presence.activity)>>,
                             status |-> client_status.v]>>

C25_Witness ==
  /\ presence.calls > 0
  /\ presence.activity = Activity("STREAMING", "")
  /\ presence.status = Str("dnd")
  /\ presence.gateway = "GatewayClient"
  /\ session[presence.shard].conn = "CONNECTED"
  /\ presence.sent = <<[activity |-> <<[type |-> 1, url |-> None]>>, status |-> "DND"]>>


\* C26: when the request has acted on a non-429 response whose headers report remaining 0,
\* a 500, 502 or 504 with attempts left is being retried after the backoff sleep, any other
\* status outside [200, 300) has raised the error of that status, and a status in
\* [200, 300) has returned the body.
C26_ExhaustedThenStatusChecks ==
  (/\ handled.req # 0
   /\ handled.resp.status # 429
   /\ HeaderNum(handled.resp.header, "x-ratelimit-remaining", -1) = 0)
    => LET r == handled.req
           status == handled.resp.status
       IN  /\ (status \in {500, 502, 504} /\ sends[r] < max_attempts) => pc[r] = "backoff"
           /\ (status \notin {500, 502, 504} /\ ~Is2xx(status)) =>
                pc[r] = "done" /\ outcome[r].kind = raise_exception(status)
           /\ Is2xx(status) =>
                pc[r] = "done" /\ outcome[r].kind = "return"
                  /\ outcome[r].body = handled.resp.body


\* C27: for the bucket lock and route key of every running request and every header set,
\* ingest_ratelimit leaves the registry mapping the route key to the bucket hash of the
\* headers and that hash to the lock, and every other entry as it was; headers without a
\* bucket hash leave both maps unchanged.
C27_IngestRegisters ==
  \A r \in {q \in Reqs : Active(S, q)} : \A header \in Headers(policy) :
    LET k == route[r]
        l == lock[r]
        h == HeaderGet(header, "x-ratelimit-bucket", None)
        t == ingest_ratelimit(S, k, header, l)
    IN  IF h # None
        THEN /\ t.endpoints = [endpoints EXCEPT ![k] = h]
             /\ t.ratelimit_locks = [ratelimit_locks EXCEPT ![h] = l]
        ELSE t.endpoints = endpoints /\ t.ratelimit_locks = ratelimit_locks

\* A request sleeps through a bucket limit whose 429 named a bucket; route key and hash
\* are registered with its lock.
C27_Witness ==
  \E r \in Reqs :
    /\ handled.req = r /\ pc[r] = "defersleep"
    /\ "x-ratelimit-bucket" \in DOMAIN handled.resp.header
    /\ endpoints[route[r]] = handled.resp.header["x-ratelimit-bucket"]
    /\ ratelimit_locks[endpoints[route[r]]] = lock[r]


\* C28: for every route key, get_ratelimit returns the lock registered for the recorded
\* hash of the key when there is a recorded hash and a live lock under it, and otherwise a
\* new lock: unlocked, hash unknown, limit -1, remaining -1, delay 0, in no registry
\* entry; and the step that calls it for a request gives the request that lock and
\* changes neither registry map.
C28_GetRatelimit ==
  /\ [](\A k \in RouteKeys :
          LET h == endpoints[k]
              l == get_ratelimit(S, k)
          IN  IF h # None /\ ratelimit_locks[h] # 0
              THEN l = ratelimit_locks[h] /\ Referenced(S, l)
              ELSE (\E m \in LockIds : ~Referenced(S, m)) =>
                     /\ bl[l] = BucketLock
                     /\ ~Referenced(S, l)
                     /\ \A g \in Hashes : ratelimit_locks[g] # l)
  /\ [][\A r \in Reqs :
          (pc[r] = "idle" /\ pc'[r] # "idle") =>
            /\ lock'[r] = get_ratelimit(S, route'[r])
            /\ endpoints' = endpoints
            /\ ratelimit_locks' = ratelimit_locks]_vars

\* Two running requests for different route keys of one bucket have the same lock, the one
\* registered for the bucket.
C28_Witness ==
  \E r, q \in Reqs :
    /\ Active(S, r) /\ Active(S, q)
    /\ route[r] # route[q]
    /\ lock[r] = lock[q]
    /\ endpoints[route[q]] # None
    /\ ratelimit_locks[endpoints[route[q]]] = lock[q]


\* C29: every entry of the hash-to-lock map leads to a lock that carries that hash.
C29_RegistryMatchesLocks ==
  \A h \in Hashes :
    ratelimit_locks[h] # 0 => bl[ratelimit_locks[h]].bucket_hash = h


\* C30: a bucket lock is held whenever a request is inside its scope, by one request at a
\* time; a pending deferred unlock, timer or awaited sleep, is the only one of its lock and
\* finds the lock held by the acquisition that deferred it, no other request having got
\* into the scope; and every release is made by the request in the scope or, the scope
\* being empty, by the pending timer.
C30_OneReleasePerAcquisition ==
  /\ [](\A l \in LockIds :
          scheduled[l] # <<>> =>
            /\ Len(scheduled[l]) = 1
            /\ bl[l].locked
            /\ \A r \in Reqs : ~InScope(r, l))
  /\ [](\A r \in Reqs :
          InScope(r, lock[r]) =>
            /\ bl[lock[r]].locked
            /\ \A q \in Reqs : q # r => ~InScope(q, lock[r]))
  /\ [][\A l \in LockIds :
          (bl[l].locked /\ ~bl'[l].locked) =>
            IF scheduled[l] # <<>>
            THEN scheduled'[l] = <<>>
            ELSE \E r \in Reqs : InScope(r, l) /\ ~InScope(r, l)']_vars

\* The timer of an exhausted bucket is due while a later request waits for the lock.
C30_Witness ==
  \E l \in LockIds :
    /\ scheduled[l] = <<0>>
    /\ bl[l].locked
    /\ bl[l].waiters # <<>>


\* The response the request has just acted on told it to keep the lock for the bucket's
\* reset-delay: it was no 429 and its headers report remaining 0.
Exhausting(resp) ==
  resp.status # 429 /\ HeaderNum(resp.header, "x-ratelimit-remaining", -1) = 0

\* C31: unlock_on_exit is False only while a request sleeps in an awaited deferred unlock
\* of that lock, so it is True again after every exit from the scope; and a call that has
\* ended has released its bucket lock, unless its last response asked for the deferred
\* release, in which case the release is scheduled.
C31_DeferralIsOneShot ==
  /\ \A l \in LockIds :
       ~bl[l].unlock_on_exit => \E r \in Reqs : lock[r] = l /\ pc[r] = "defersleep"
  /\ \A r \in Reqs :
       pc[r] = "done" =>
         IF handled.req = r /\ Exhausting(handled.resp)
         THEN outcome[r].lock = "deferred"
         ELSE outcome[r].lock = "released"

\* A call that slept through a deferred unlock in an earlier attempt has released the lock
\* at the end of its last scope.
C31_Witness ==
  \E r \in Reqs :
    /\ pc[r] = "done" /\ handled.req = r /\ Is2xx(handled.resp.status)
    /\ handled.resp.header["content-type"] = "application/json"
    /\ retryKind[r] = "mixed" /\ sends[r] >= 2
    /\ outcome[r].lock = "released"
    /\ \E q \in Reqs : pc[q] = "acquire" /\ lock[q] = lock[r]


\* BucketLock l is referenced by the local of a running request or by a call_later handle.
Alive(l) ==
  \/ \E r \in Reqs : pc[r] \notin {"idle", "done"} /\ lock[r] = l
  \/ scheduled[l] # <<>>

\* The same of the state a step leads to.
AliveAfter(l) ==
  \/ \E r \in Reqs : pc'[r] \notin {"idle", "done"} /\ lock'[r] = l
  \/ scheduled'[l] # <<>>

\* C32: ratelimit_locks holds its locks weakly, and a lock that is still held or has a
\* deferred unlock pending is never dropped from it: an entry h -> L is still there after
\* every step that leaves L referenced by a running request or a call_later handle.
C32_HeldLockStaysRegistered ==
  [][\A h \in Hashes :
       (ratelimit_locks[h] # 0 /\ AliveAfter(ratelimit_locks[h]))
         => ratelimit_locks'[h] = ratelimit_locks[h]]_vars


\* C33: in every attempt, retries included, the bucket lock is acquired first, then a token
\* of the global limiter is taken, then the transfer is issued.  Whoever waits for a token
\* or has a transfer under way holds its bucket lock alone; the step that issues a transfer
\* takes a token of the current window; and a retry gives the bucket lock up before it
\* takes it again, so that it queues behind a request already waiting for it.
C33_LockThenTokenThenTransfer ==
  /\ [](\A r \in Reqs :
          pc[r] \in {"throttle", "tokenwait", "send"} =>
            /\ bl[lock[r]].locked
            /\ \A q \in Reqs \ {r} : ~InScope(q, lock[r]))
  /\ [][\A r \in Reqs :
          sends'[r] = sends[r] + 1 =>
            /\ pc[r] \in {"idle", "acquire", "throttle", "tokenwait",
                          "hardsleep", "defersleep", "backoff"}
            /\ pc'[r] = "send" /\ bl'[lock'[r]].locked
            /\ sends'[r] = attempt'[r] + 1
            /\ tokens' = (IF cdLeft = 0 THEN TokenCap ELSE tokens) - 1]_vars
  /\ [][\A r \in Reqs :
          (attempt'[r] = attempt[r] + 1 /\ bl[lock[r]].waiters # <<>>) =>
            /\ pc'[r] = "acquire" /\ ~bl'[lock[r]].locked
            /\ bl'[lock[r]].waiters = Append(bl[lock[r]].waiters, r)]_vars

\* A transfer of a second attempt is under way, with the bucket lock held and the token
\* of the window taken, while another request waits for the same bucket lock.
C33_Witness ==
  \E r \in Reqs :
    /\ pc[r] = "send" /\ attempt[r] >= 1 /\ sends[r] = attempt[r] + 1
    /\ bl[lock[r]].locked /\ tokens < TokenCap
    /\ \E q \in Reqs \ {r} : pc[q] = "acquire" /\ lock[q] = lock[r]


\* C34: a request task cancelled while it sleeps in the awaited deferred unlock of a
\* non-global 429 leaves its bucket lock released, and one cancelled while it sleeps
\* through the hard-lock window of a global 429 leaves the global lock and its bucket lock
\* released.
C34_CancelReleasesLocks ==
  [][\A r \in Reqs :
       (pc'[r] = "done" /\ outcome'[r].kind = "CancelledError") =>
         /\ pc[r] = "defersleep" => outcome'[r].lock = "released"
         /\ pc[r] = "hardsleep" => ~glocked' /\ outcome'[r].lock = "released"]_vars


\* C35: a request that finds the session closed logs in from inside its attempt, and the
\* request of the login never waits for a bucket lock that the request which called login
\* holds itself, so the login completes and the outer request goes on, also when the outer
\* request is a GET /users/@me that holds the registered lock of its bucket.
C35_LoginNeverWaitsForItsCaller ==
  \A q \in Reqs :
    (caller[q] # 0 /\ pc[q] = "acquire") =>
      ~(lock[q] = lock[caller[q]] /\ pc[caller[q]] = "login")


\* C36: under a fair event loop, with a server that answers every transfer and timers that
\* fire, every call of request terminates: whatever point a call has reached, it ends by
\* returning or raising.
C36_EveryCallTerminates ==
  \A r \in Reqs : (pc[r] \notin {"idle", "done"}) ~> (pc[r] \in {"idle", "done"})


\* C37: the gateway-started signal is per shard: starting one ConnectionState never sets
\* the signal observed through another, so the signal seen through a ConnectionState whose
\* start has not been called is clear.
C37_SignalIsPerShard ==
  \A s \in Shards :
    (s <= total_shards /\ start_pc[s] = "idle") => ~gateway_started


\* The shards whose gateway.run() has ended.
Ended == {s \in Shards : run_exit[s].how # "none"}

\* C38: every end of the run loop, whether it returned, was closed with a close code or
\* raised some other exception, causes exactly one disconnect event: Disconnect on a client
\* with one shard, ShardDisconnect with the shard id on a client with several.
C38_OneDisconnectPerTermination ==
  /\ Len(dispatched) = Cardinality(Ended)
  /\ \A i \in DOMAIN dispatched :
       IF total_shards = 1 THEN dispatched[i] = Disconnect
       ELSE dispatched[i].type = "ShardDisconnect" /\ dispatched[i].shard \in Ended


\* C39: stop returns without raising and leaves the state stopped whatever the life cycle
\* of the shard is when it is called: never started, running, task already over (normally
\* or with an error) or already stopped.
C39_StopNeverRaises ==
  \A s \in Shards :
    /\ stop_pc[s] # "raised"
    /\ stop_pc[s] = "returned" => gateway[s] = None


====
